---- MODULE Spec2Model ----
(***************************************************************************)
(* Model of the teek file-drop target for X11: the text/uri-list decoder   *)
(* and the XDND (version 5) drop target of ext/teek/tkdrop_x11.c.          *)
(*                                                                         *)
(* Strings are C strings: sequences of bytes (0..255).  A buffer of a      *)
(* string u is u \o <<0>>; C index i is TLA+ index i+1.                    *)
(***************************************************************************)
EXTENDS Integers, Sequences, FiniteSets, TLC

(***************************************************************************)
(* Bounds of the model                                                     *)
(***************************************************************************)
\* longest enumerated tail (the bytes after the scheme/host prefix) of a URI
MaxTail == 4
\* most lines in an enumerated text/uri-list payload
MaxLines == 2
\* most drop-target registrations (per-window state records) in one run
MaxHandlers == 2
\* most selection conversions outstanding on one window
MaxPending == 2

(***************************************************************************)
(* Bytes that the code names                                               *)
(***************************************************************************)
NUL == 0
CR == 13
LF == 10
Hash == 35
Pct == 37
Slash == 47

\* "file://"
FileScheme == <<102, 105, 108, 101, 58, 47, 47>>
\* "localhost"
Localhost == <<108, 111, 99, 97, 108, 104, 111, 115, 116>>
\* "\r\n"
CRLF == <<CR, LF>>

Min(a, b) == IF a <= b THEN a ELSE b

\* the byte at C index i of buffer b
At(b, i) == b[i + 1]

\* strlen: the number of bytes before the first NUL at or after C index i
RECURSIVE strlen_from(_, _)
strlen_from(b, i) == IF At(b, i) = NUL THEN 0 ELSE 1 + strlen_from(b, i + 1)

\* the C string that starts at C index i of buffer b (up to the first NUL)
CStrAt(b, i) == SubSeq(b, i + 1, i + strlen_from(b, i))

\* strncmp(b + i, lit, Len(lit)) == 0
strncmp_eq(b, i, lit) ==
    \A k \in 1..Len(lit) : i + k <= Len(b) /\ b[i + k] = lit[k]

(***************************************************************************)
(* hex_decode: the value of two hex digits, -1 when either is not one      *)
(***************************************************************************)
hex_digit(c) ==
    IF c >= 48 /\ c <= 57 THEN c - 48
    ELSE IF c >= 97 /\ c <= 102 THEN c - 97 + 10
    ELSE IF c >= 65 /\ c <= 70 THEN c - 65 + 10
    ELSE -1

hex_decode(c0, c1) ==
    IF hex_digit(c0) < 0 THEN -1
    ELSE IF hex_digit(c1) < 0 THEN -1
    ELSE hex_digit(c0) * 16 + hex_digit(c1)

(***************************************************************************)
(* uri_to_path                                                             *)
(***************************************************************************)
\* the C index where decoding starts: after "file://" and after an
\* optional "localhost"
HostSkip(b) ==
    IF At(b, 7) # Slash /\ strncmp_eq(b, 7, Localhost) THEN 16 ELSE 7

\* the in-place decoding loop: src and dst are C indexes into b
RECURSIVE DecodeLoop(_, _, _)
DecodeLoop(b, src, dst) ==
    IF At(b, src) = NUL
    THEN [b EXCEPT ![dst + 1] = NUL]
    ELSE IF /\ At(b, src) = Pct
            /\ At(b, src + 1) # NUL
            /\ At(b, src + 2) # NUL
            /\ hex_decode(At(b, src + 1), At(b, src + 2)) >= 0
         THEN DecodeLoop([b EXCEPT ![dst + 1] =
                              hex_decode(At(b, src + 1), At(b, src + 2))],
                         src + 3, dst + 1)
         ELSE DecodeLoop([b EXCEPT ![dst + 1] = At(b, src)],
                         src + 1, dst + 1)

\* mutant: only the length of the line is tested, not its scheme
IsFileUriAlways(b) == Len(b) >= 8

\* the test on the scheme: strncmp(uri, "file://", 7) == 0
IsFileUri(b) == strncmp_eq(b, 0, FileScheme)

\* line 98: the C index returned, computed from the decoded buffer
RetOffset(b) == 7 + (IF At(b, 7) # Slash THEN 9 ELSE 0)

\* uri_to_path on the NUL-terminated copy u \o <<0>> of u.  The result is
\* NULL, or the decoded buffer with the C index the function returns.
uri_to_path(u) ==
    LET b0 == u \o <<NUL>>
    IN  IF ~IsFileUri(b0)
        THEN [null |-> TRUE, buf |-> b0, off |-> 0]
        ELSE LET b1 == DecodeLoop(b0, HostSkip(b0), HostSkip(b0))
             IN  [null |-> FALSE, buf |-> b1, off |-> RetOffset(b1)]

\* the returned pointer lies inside the allocation of Len(u) + 1 bytes
InBounds(r) == r.off < Len(r.buf)

(***************************************************************************)
(* Reading a string through a pointer that may lie outside its buffer is   *)
(* undefined: the read yields an empty string, some other bytes, or ends   *)
(* the process.                                                            *)
(***************************************************************************)
UBOutcomes == {"empty", "garbage", "crash"}
Garbage == <<63>>

\* what the caller reads at the returned pointer: [crash, str]
ReadPath(r, ub) ==
    IF InBounds(r) THEN [crash |-> FALSE, str |-> CStrAt(r.buf, r.off)]
    ELSE IF ub = "crash" THEN [crash |-> TRUE, str |-> <<>>]
    ELSE IF ub = "garbage" THEN [crash |-> FALSE, str |-> Garbage]
    ELSE [crash |-> FALSE, str |-> <<>>]

(***************************************************************************)
(* process_uri_list: the list of paths built from the property data        *)
(***************************************************************************)
\* strstr(b + i, "\r\n") as a C index, -1 when there is none
RECURSIVE strstr_crlf(_, _)
strstr_crlf(b, i) ==
    IF At(b, i) = NUL THEN -1
    ELSE IF At(b, i) = CR /\ At(b, i + 1) = LF THEN i
    ELSE strstr_crlf(b, i + 1)

\* lines 161-171: what one line adds to the list (strdup of the line is
\* taken to succeed; when it fails the line is skipped)
LinePaths(ln, ub) ==
    IF ln = <<>> \/ ln[1] = Hash THEN [crash |-> FALSE, paths |-> <<>>]
    ELSE LET r == uri_to_path(ln)
         IN  IF r.null THEN [crash |-> FALSE, paths |-> <<>>]
             ELSE LET p == ReadPath(r, ub)
                  IN  IF p.crash THEN [crash |-> TRUE, paths |-> <<>>]
                      ELSE IF p.str = <<>>
                           THEN [crash |-> FALSE, paths |-> <<>>]
                           ELSE [crash |-> FALSE, paths |-> <<p.str>>]

\* the while loop of lines 155-174: line is a C index into b, acc the list
RECURSIVE LineLoop(_, _, _, _)
LineLoop(b, line, acc, ub) ==
    IF At(b, line) = NUL THEN [crash |-> FALSE, paths |-> acc]
    ELSE LET eol == strstr_crlf(b, line)
             b1 == IF eol >= 0 THEN [b EXCEPT ![eol + 1] = NUL] ELSE b
             one == LinePaths(CStrAt(b1, line), ub)
         IN  IF one.crash THEN [crash |-> TRUE, paths |-> <<>>]
             ELSE IF eol >= 0
                  THEN LineLoop(b1, eol + 2, acc \o one.paths, ub)
                  ELSE [crash |-> FALSE, paths |-> acc \o one.paths]

\* process_uri_list(st, data, len) up to the event: [crash, paths]
process_uri_list(data, ub) == LineLoop(data \o <<NUL>>, 0, <<>>, ub)

(***************************************************************************)
(* X11 drop target (tkdrop_x11.c)                                          *)
(***************************************************************************)
XDND_VERSION == 5
\* XGetWindowProperty reads at most this many atoms of XdndTypeList
TypeListMax == 1024
\* calloc leaves source_window at 0 (None)
NoWindow == 0
\* 1 << 24: the version is in bits 24..31 of data.l[1]
VersionShift == 16777216

\* Atoms are modelled by their names: Tk_InternAtom is injective on names
None == "None"
xdnd_aware == "XdndAware"
xdnd_type_list == "XdndTypeList"
xdnd_enter == "XdndEnter"
xdnd_position == "XdndPosition"
xdnd_status == "XdndStatus"
xdnd_drop == "XdndDrop"
xdnd_finished == "XdndFinished"
xdnd_selection == "XdndSelection"
xdnd_action_copy == "XdndActionCopy"
text_uri_list == "text/uri-list"
teek_drop_prop == "TeekDropData"
\* lines 316-326: the names resolved by a registration, in that order
ProtocolAtoms ==
    <<xdnd_aware, xdnd_enter, xdnd_position, xdnd_status, xdnd_drop,
      xdnd_finished, xdnd_selection, xdnd_type_list, xdnd_action_copy,
      text_uri_list, teek_drop_prop>>
\* the display of the application
TheDisplay == "display"
\* atoms the handler does not know
xdnd_leave == "XdndLeave"
text_plain == "text/plain"
other_prop == "OtherProp"

\* the registered windows, their widget paths, and the drag sources
Windows == {1, 2}
WidgetPath(w) == IF w = 1 THEN ".a" ELSE ".b"
Sources == {10, 11}

\* "file:///a", "file:///b", "file://h/a" and "http://x"
UriA == FileScheme \o <<47, 97>>
UriB == FileScheme \o <<47, 98>>
UriHostA == FileScheme \o <<104, 47, 97>>
UriHttp == <<104, 116, 116, 112, 58, 47, 47, 120>>

\* what the selection owner may store in the drop property
DropPayloads ==
    { <<>>,
      UriA \o CRLF \o UriB \o CRLF,
      UriB \o CRLF \o <<Hash>> \o CRLF \o UriHttp \o CRLF \o UriA,
      UriHostA \o CRLF }
\* a window property as XGetWindowProperty(..., 0, 65536, True, ...) sees
\* it: absent, or present with value, the bytes the read returns, and
\* after, the bytes_after of the read (not 0 when the property is longer
\* than the 65536 long words asked for)
Absent == [present |-> FALSE, value |-> <<>>, after |-> 0]
StoredWith(d, after) == [present |-> TRUE, value |-> d, after |-> after]
Stored(d) == StoredWith(d, 0)
\* the read deletes the property only when it returned all of it
AfterRead(p) == IF p.after = 0 THEN Absent ELSE p
\* what the owner stores: a payload that fits the read, or one whose
\* first part is the value and that goes on beyond the read
StoreChoices ==
    {<<d, 0>> : d \in DropPayloads}
    \cup {<<UriA \o CRLF \o UriB \o CRLF, 1>>}

\* the XdndTypeList property of a source: absent, or len atoms of which
\* the one at position uriAt (none when 0) is text/uri-list
NoTypeList == [present |-> FALSE, len |-> 0, uriAt |-> 0]
TypeList(len, uriAt) == [present |-> TRUE, len |-> len, uriAt |-> uriAt]
\* is atom a among the first count atoms of tl (the scan of lines 220-225)
HasType(tl, count, a) ==
    IF a = text_uri_list THEN tl.uriAt \in 1..count ELSE count > 0

(***************************************************************************)
(* tkdrop_win.c: the OLE IDropTarget adapter                               *)
(***************************************************************************)
MaxFiles == 2
MaxRef == 3
\* capacity in WCHARs of the buffer DragQueryFileW fills
MAX_PATH == 260

S_OK == "S_OK"
S_FALSE == "S_FALSE"
E_FAIL == "E_FAIL"
DV_E_FORMATETC == "DV_E_FORMATETC"
E_OUTOFMEMORY == "E_OUTOFMEMORY"
FAILED(hr) == hr # S_OK /\ hr # S_FALSE
DROPEFFECT_COPY == "DROPEFFECT_COPY"
DROPEFFECT_NONE == "DROPEFFECT_NONE"
\* *pdwEffect as the caller left it
EffectUnset == "unset"

\* struct TeekDropTarget (the vtable and the interpreter are fixed)
TeekDropTarget(ref_count, widget_path, hwnd) ==
    [ref_count |-> ref_count, widget_path |-> widget_path, hwnd |-> hwnd]
\* no adapter: none was created, or the last reference was released
NoTdt == TeekDropTarget(0, "-", NoWindow)

\* UTF-16 code units
IsHighSurrogate(u) == u >= 55296 /\ u <= 56319
IsLowSurrogate(u) == u >= 56320 /\ u <= 57343
ReplacementChar == 65533

\* the UTF-8 bytes of one code point
Utf8Bytes(cp) ==
    IF cp < 128 THEN <<cp>>
    ELSE IF cp < 2048 THEN <<192 + (cp \div 64), 128 + (cp % 64)>>
    ELSE IF cp < 65536
    THEN <<224 + (cp \div 4096), 128 + ((cp \div 64) % 64), 128 + (cp % 64)>>
    ELSE <<240 + (cp \div 262144), 128 + ((cp \div 4096) % 64),
           128 + ((cp \div 64) % 64), 128 + (cp % 64)>>

\* what WideCharToMultiByte(CP_UTF8, 0, ...) writes for the code unit at i
\* of w: a surrogate pair is one code point, written at its first unit; a
\* surrogate on its own becomes U+FFFD
WideUnitBytes(w, i) ==
    IF IsLowSurrogate(w[i]) /\ i > 1 /\ IsHighSurrogate(w[i - 1])
    THEN <<>>
    ELSE IF IsHighSurrogate(w[i]) /\ i < Len(w) /\ IsLowSurrogate(w[i + 1])
    THEN Utf8Bytes(65536 + (w[i] - 55296) * 1024 + (w[i + 1] - 56320))
    ELSE IF IsHighSurrogate(w[i]) \/ IsLowSurrogate(w[i])
    THEN Utf8Bytes(ReplacementChar)
    ELSE Utf8Bytes(w[i])

\* WideCharToMultiByte(CP_UTF8, 0, w, -1, ...): the bytes written for the
\* code units lo..hi of w, without the terminating NUL
RECURSIVE WideCharToMultiByte(_, _, _)
WideCharToMultiByte(w, lo, hi) ==
    IF lo > hi THEN <<>>
    ELSE IF lo = hi THEN WideUnitBytes(w, lo)
    ELSE WideCharToMultiByte(w, lo, (lo + hi) \div 2)
         \o WideCharToMultiByte(w, (lo + hi) \div 2 + 1, hi)

\* one entry of the HDROP: its name and what happens to it in the loop
\* ("ok", or the call that fails: "query", "convert", "malloc")
DropEntry(name, kind) == <<name, kind>>
EntryName(e) == e[1]
EntryKind(e) == e[2]

\* DragQueryFileW(hDrop, i, wpath, MAX_PATH): the characters copied to
\* wpath, at most MAX_PATH - 1 before the NUL; none when the query fails
DragQueryFileW(e) ==
    IF EntryKind(e) = "query" THEN <<>>
    ELSE SubSeq(EntryName(e), 1, Min(Len(EntryName(e)), MAX_PATH - 1))

\* lines 128-144: the paths appended for entries i.. of the file list
RECURSIVE DropLoop(_, _)
DropLoop(files, i) ==
    IF i > Len(files) THEN <<>>
    ELSE IF Len(DragQueryFileW(files[i])) = 0 THEN DropLoop(files, i + 1)
    ELSE IF EntryKind(files[i]) = "convert" THEN DropLoop(files, i + 1)
    ELSE IF EntryKind(files[i]) = "malloc" THEN DropLoop(files, i + 1)
    ELSE <<WideCharToMultiByte(DragQueryFileW(files[i]), 1,
                               Len(DragQueryFileW(files[i])))>>
         \o DropLoop(files, i + 1)

\* the IDataObject of a gesture: the answer of QueryGetData for CF_HDROP,
\* the result of GetData, whether GlobalLock succeeds, and the file list
DataObject(query, getData, lockOk, files) ==
    [query |-> query, getData |-> getData, lockOk |-> lockOk, files |-> files]
NoDataObject == DataObject(FALSE, E_FAIL, FALSE, <<>>)
\* a data object that has not been asked for its data yet: the source
\* renders them when GetData is called
Advertising(query) == DataObject(query, "-", FALSE, <<>>)

\* what a call of the adapter did: the adapter afterwards, the HRESULT,
\* *pdwEffect and the events; AddRef and Release return no HRESULT but the
\* count, which is the ref_count of the adapter afterwards
NoHresult == "-"
WinRes(a, hr, effect, events) ==
    [tdt |-> a, hr |-> hr, effect |-> effect, events |-> events]
NoWinRes == WinRes(NoTdt, S_OK, EffectUnset, <<>>)
WinCall(name, obj) == [name |-> name, obj |-> obj]
NoWinCall == WinCall("none", NoDataObject)
\* the drag gesture over the window: whether one is in progress, and its
\* data object
Gesture(active, obj) == [active |-> active, obj |-> obj]
NoGesture == Gesture(FALSE, NoDataObject)

tdt_AddRef(a) ==
    WinRes([a EXCEPT !.ref_count = @ + 1], NoHresult, EffectUnset, <<>>)

\* the adapter is freed when the count reaches 0
tdt_Release(a) ==
    IF a.ref_count - 1 = 0
    THEN WinRes(NoTdt, NoHresult, EffectUnset, <<>>)
    ELSE WinRes([a EXCEPT !.ref_count = @ - 1], NoHresult, EffectUnset,
                <<>>)

has_file_data(obj) == obj.query

tdt_DragEnter(a, obj) ==
    IF has_file_data(obj)
    THEN WinRes(a, S_OK, DROPEFFECT_COPY, <<>>)
    ELSE WinRes(a, S_OK, DROPEFFECT_NONE, <<>>)

\* mutant: the pointer position is refused
tdt_DragOverNone(a) == WinRes(a, S_OK, DROPEFFECT_NONE, <<>>)

tdt_DragOver(a) == WinRes(a, S_OK, DROPEFFECT_COPY, <<>>)

tdt_DragLeave(a) == WinRes(a, S_OK, EffectUnset, <<>>)

tdt_Drop(a, obj) ==
    IF FAILED(obj.getData)
    THEN WinRes(a, obj.getData, DROPEFFECT_NONE, <<>>)
    ELSE IF ~obj.lockOk
    THEN WinRes(a, E_FAIL, DROPEFFECT_NONE, <<>>)
    ELSE WinRes(a, S_OK, DROPEFFECT_COPY,
                <<[widget_path |-> a.widget_path,
                   data |-> DropLoop(obj.files, 1)]>>)

(***************************************************************************)
(* Values of the state outside a drag session                             *)
(***************************************************************************)
\* the threads that hold interface pointers of the adapter
Threads == {1, 2}
MaxCalls == 3
\* no Release is between its decrement and its test
NotReleasing == -1
NoRel == [t \in Threads |-> NotReleasing]
\* the reference-count calls made so far and the last of them
RefLog(addref, qi, release, destroyed, call, ppv) ==
    [addref |-> addref, qi |-> qi, release |-> release,
     destroyed |-> destroyed, call |-> call, ppv |-> ppv]
NoRefLog == RefLog(0, 0, 0, 0, "none", "-")

\* Tk: whether the interpreter has a main window, and the windows whose
\* native window has been made to exist
TkState(main, made) == [main |-> main, made |-> made]
\* OLE: the initialisation count of the thread, how often the subsystem
\* was really initialised, the windows with a registered drop target, and
\* the TeekDropTarget allocations alive
WinReg(oleCount, oleInits, targets, allocated) ==
    [oleCount |-> oleCount, oleInits |-> oleInits, targets |-> targets,
     allocated |-> allocated]
NoWinReg == WinReg(0, 0, {}, 0)
\* what Interp#register_drop_target did: the error raised ("-": none, it
\* returned nil), the functions it called, and the result and the message
\* of the adapter
RegOut(path, raised, calls, rc, msg) ==
    [path |-> path, raised |-> raised, calls |-> calls, rc |-> rc,
     msg |-> msg]
NoRegOut == RegOut("-", "-", <<>>, "-", "-")

\* the statics of the audio capture
Capture(file, data_bytes, freq, channels) ==
    [file |-> file, data_bytes |-> data_bytes, freq |-> freq,
     channels |-> channels]
NoFile == "NULL"
NoCapture == Capture(NoFile, 0, 0, 0)
\* the mixer: mixer_initialized, the format it was opened with, whether
\* the post-mix callback is installed, and path -> the data size in the
\* header of the file written there (-1: no such file)
\* and the paths on which a FILE is open
Mixer(initialized, format, postmix, files, open) ==
    [initialized |-> initialized, format |-> format, postmix |-> postmix,
     files |-> files, open |-> open]
CapturePaths == {"a.wav", "b.wav"}
NoSuchFile == -1
NoFormat == "-"
NoMixer ==
    Mixer(FALSE, NoFormat, FALSE, [p \in CapturePaths |-> NoSuchFile], {})
\* what the last audio call did
AudioOut(call, raised) == [call |-> call, raised |-> raised]
NoAudioOut == AudioOut("none", "-")

\* the Sound objects of the program, the chunk each one loads, and a Sound
\* object: whether the collector has finalised it, and its struct
Sounds == {1, 2}
NoChunk == 0
sdl2_sound(chunk, destroyed) == [chunk |-> chunk, destroyed |-> destroyed]
SoundObj(collected, st) == [collected |-> collected, st |-> st]
\* a Mix_Chunk on the heap: "none" before Mix_LoadWAV returned it, then
\* "live", then "freed"; the calls of Mix_FreeChunk on it, its volume, and
\* whether it was used after it was freed
MIX_MAX_VOLUME == 128
Chunk(state, frees, volume, misused) ==
    [state |-> state, frees |-> frees, volume |-> volume,
     misused |-> misused]
\* what has happened to a Sound: its load succeeded, destroy was called
SoundLog(loaded, destroyCalled) ==
    [loaded |-> loaded, destroyCalled |-> destroyCalled]
\* what the last Sound call did: the receiver, the message raised, the
\* integer and the boolean returned
SoundOut(call, self, raised, ret, flag) ==
    [call |-> call, self |-> self, raised |-> raised, ret |-> ret,
     flag |-> flag]

VARIABLES
    handlers,     \* the TeekXdndState records, in the order of the generic handler list
    xdndAware,    \* window -> value of its XdndAware property (0: not set)
    prop,         \* window -> content of its TeekDropData property, or Absent
    convPending,  \* window -> selection conversions requested and not yet notified
    dropFrom,     \* window -> the source recorded when its last outstanding conversion was requested
    lastEv,       \* the event or call handled by the last step
    out,          \* what the last step returned, sent, requested and emitted
    crashed,      \* the process was ended by an out-of-bounds read
    dIn,          \* decoder: the input
    dOut,         \* decoder: the result
    tdt,          \* Windows: the TeekDropTarget, or NoTdt
    wIn,          \* Windows: the last call of the adapter and its data object
    wOut,         \* Windows: what that call returned, reported and emitted
    gesture,      \* Windows: the drag gesture in progress over the window
    rel,          \* Windows: thread -> the count its Release got back, or NotReleasing
    refLog,       \* Windows: the reference-count calls made so far
    platform,     \* which teek_register_drop_target the build has
    tk,           \* registration: the Tk main window and the native windows
    winReg,       \* registration: OLE initialisation and registered targets
    regOut,       \* registration: what the last call did
    cap,          \* audio: capture_file, capture_data_bytes, capture_freq, capture_channels
    mixer,        \* audio: the mixer
    aOut,         \* audio: what the last call did
    snd,          \* sound: Sound object -> SoundObj
    chunks,       \* sound: Sound object -> the chunk loaded for it
    sndLog,       \* sound: Sound object -> SoundLog
    sndOut        \* sound: what the last call did

vars == <<handlers, xdndAware, prop, convPending, dropFrom, lastEv, out, crashed,
          dIn, dOut,
          tdt, wIn, wOut, gesture, rel, refLog, platform, tk, winReg, regOut,
          cap, mixer, aOut, snd, chunks, sndLog, sndOut>>
winvars == <<tdt, wIn, wOut, gesture>>
refvars == <<rel, refLog>>
regvars == <<platform, tk, winReg, regOut>>
audvars == <<cap, mixer, aOut>>
sndvars == <<snd, chunks, sndLog, sndOut>>

\* the parts of the state before anything has happened in them
X11Idle ==
    /\ handlers = <<>>
    /\ xdndAware = [w \in Windows |-> 0]
    /\ prop = [w \in Windows |-> Absent]
    /\ convPending = [w \in Windows |-> 0]
    /\ dropFrom = [w \in Windows |-> NoWindow]
    /\ crashed = FALSE
WinIdle ==
    /\ tdt = NoTdt
    /\ wIn = NoWinCall
    /\ wOut = NoWinRes
    /\ gesture = NoGesture
RefIdle ==
    /\ rel = NoRel
    /\ refLog = NoRefLog
RegIdle(p) ==
    /\ platform = p
    /\ tk = TkState(TRUE, {})
    /\ winReg = NoWinReg
    /\ regOut = NoRegOut
AudIdle ==
    /\ cap = NoCapture
    /\ mixer = NoMixer
    /\ aOut = NoAudioOut
\* lines 73-80: every Sound as sound_alloc leaves it
SndIdle ==
    /\ snd = [s \in Sounds |-> SoundObj(FALSE, sdl2_sound(NoChunk, FALSE))]
    /\ chunks = [s \in Sounds |-> Chunk("none", 0, MIX_MAX_VOLUME, FALSE)]
    /\ sndLog = [s \in Sounds |-> SoundLog(FALSE, FALSE)]
    /\ sndOut = SoundOut("none", 0, "-", 0, FALSE)
x11vars == <<handlers, xdndAware, prop, convPending, dropFrom, lastEv, out,
            crashed>>

\* an event or call, with every field present
Event(type, window, mt, l0, l1, l2, types, tl, sp, dispOk, allocOk, ub) ==
    [type |-> type, window |-> window, message_type |-> mt,
     l0 |-> l0, l1 |-> l1, l2 |-> l2, types |-> types, typeList |-> tl,
     sel_property |-> sp, dispOk |-> dispOk, allocOk |-> allocOk, ub |-> ub]
NoTypes == <<None, None, None>>
Ev(type, window) ==
    Event(type, window, None, NoWindow, 0, 0, NoTypes, NoTypeList, None,
          TRUE, TRUE, "-")
ClientMessage(w, mt, l0, l1, l2, types, tl) ==
    Event("ClientMessage", w, mt, l0, l1, l2, types, tl, None, TRUE, TRUE,
          "-")

\* interned: the names a step resolved to atoms; no handler resolves any
OutRec(ret, rc, by, sent, conv, events) ==
    [ret |-> ret, rc |-> rc, by |-> by, sent |-> sent, conv |-> conv,
     events |-> events, interned |-> <<>>]
NoOut == OutRec(0, "-", 0, <<>>, <<>>, <<>>)

\* mutant: the copy action is sent whatever the flag
send_xdnd_status_always_copy(st, accept) ==
    [window |-> st.source_window, message_type |-> xdnd_status,
     l0 |-> st.window, l1 |-> IF accept THEN 1 ELSE 0, rect |-> 0,
     action |-> xdnd_action_copy]

\* send_xdnd_status: the client message XSendEvent delivers
send_xdnd_status(st, accept) ==
    [window |-> st.source_window, message_type |-> xdnd_status,
     l0 |-> st.window, l1 |-> IF accept THEN 1 ELSE 0, rect |-> 0,
     action |-> IF accept THEN xdnd_action_copy ELSE None]

\* send_xdnd_finished
send_xdnd_finished(st, success) ==
    [window |-> st.source_window, message_type |-> xdnd_finished,
     l0 |-> st.window, l1 |-> IF success THEN 1 ELSE 0, rect |-> 0,
     action |-> IF success THEN xdnd_action_copy ELSE None]

\* lines 199, 204: the fields of data.l[1]
EnterVersion(ev) == (ev.l1 \div VersionShift) % 256
MoreThan3(ev) == ev.l1 % 2 = 1

\* mutant: the inline slots are scanned even when the type list is used
OffersUriListInlineToo(ev) ==
    \/ /\ MoreThan3(ev)
       /\ ev.typeList.present
       /\ HasType(ev.typeList, Min(ev.typeList.len, TypeListMax),
                  text_uri_list)
    \/ \E i \in 1..3 : ev.types[i] = text_uri_list

\* lines 206-237: is text/uri-list among the offered types
OffersUriList(ev) ==
    IF MoreThan3(ev)
    THEN /\ ev.typeList.present
         /\ HasType(ev.typeList, Min(ev.typeList.len, TypeListMax),
                    text_uri_list)
    ELSE \E i \in 1..3 : ev.types[i] = text_uri_list

\* a selection-conversion request
XConvertSelection(selection, target, property, requestor, time) ==
    [selection |-> selection, target |-> target, property |-> property,
     requestor |-> requestor, time |-> time]

\* the result of one call of the handler
Res(st, ret, sent, conv, events, delProp, crash) ==
    [ret |-> ret, sent |-> sent, conv |-> conv, events |-> events,
     delProp |-> delProp, crash |-> crash, st |-> st]

\* mutant: the conversion is requested with CurrentTime (0)
HandleDropCurrentTime(st, ev) ==
    IF st.has_uri_list
    THEN Res(st, 1, <<>>,
             <<XConvertSelection(xdnd_selection, text_uri_list,
                                 teek_drop_prop, st.window, 0)>>,
             <<>>, FALSE, FALSE)
    ELSE Res(st, 1, <<send_xdnd_finished(st, FALSE)>>, <<>>, <<>>,
             FALSE, FALSE)

\* mutant: a Drop always asks for the selection
HandleDropAlwaysConvert(st, ev) ==
    Res(st, 1, <<>>,
        <<XConvertSelection(xdnd_selection, text_uri_list, teek_drop_prop,
                            st.window, ev.l2)>>,
        <<>>, FALSE, FALSE)

\* lines 246-256: the Drop branch
HandleDrop(st, ev) ==
    IF st.has_uri_list
    THEN Res(st, 1, <<>>,
             <<XConvertSelection(xdnd_selection, text_uri_list,
                                 teek_drop_prop, st.window, ev.l2)>>,
             <<>>, FALSE, FALSE)
    ELSE Res(st, 1, <<send_xdnd_finished(st, FALSE)>>, <<>>, <<>>,
             FALSE, FALSE)

\* lines 177-181 and 276: r is what process_uri_list built; the one
\* <<DropFile>> event for the widget, then XdndFinished
EventGenerate(st, r) ==
    IF r.crash THEN Res(st, 0, <<>>, <<>>, <<>>, TRUE, TRUE)
    ELSE Res(st, 1, <<send_xdnd_finished(st, TRUE)>>, <<>>,
             <<[widget_path |-> st.widget_path, data |-> r.paths]>>,
             TRUE, FALSE)

\* lines 259-279: the SelectionNotify branch.  pdata is the content of the
\* drop property of st.window, mallocOk the outcome of malloc(len + 1)
HandleSelection(st, pdata, mallocOk, ub) ==
    IF pdata.present /\ Len(pdata.value) > 0 /\ mallocOk
    THEN EventGenerate(st, process_uri_list(pdata.value, ub))
    ELSE Res(st, 1, <<send_xdnd_finished(st, TRUE)>>, <<>>, <<>>, TRUE, FALSE)

\* xdnd_event_handler
xdnd_event_handler(st, ev, pdata, mallocOk, ub) ==
    IF ev.type = "ClientMessage" /\ ev.message_type = xdnd_enter
    THEN IF EnterVersion(ev) > XDND_VERSION
         THEN Res([st EXCEPT !.source_window = ev.l0], 0, <<>>, <<>>, <<>>,
                  FALSE, FALSE)
         ELSE Res([st EXCEPT !.source_window = ev.l0,
                             !.has_uri_list = OffersUriList(ev)],
                  1, <<>>, <<>>, <<>>, FALSE, FALSE)
    ELSE IF ev.type = "ClientMessage" /\ ev.message_type = xdnd_position
    THEN Res(st, 1, <<send_xdnd_status(st, st.has_uri_list)>>, <<>>, <<>>,
             FALSE, FALSE)
    ELSE IF ev.type = "ClientMessage" /\ ev.message_type = xdnd_drop
    THEN HandleDrop(st, ev)
    ELSE IF ev.type = "SelectionNotify" /\ ev.sel_property = teek_drop_prop
    THEN HandleSelection(st, pdata, mallocOk, ub)
    ELSE Res(st, 0, <<>>, <<>>, <<>>, FALSE, FALSE)

\* Tk offers an event to the generic handlers in the order they were
\* created, until one returns non-zero (xdnd_generic_handler)
DispatchRes(hs, pr, o, crash) ==
    [out |-> o, crash |-> crash, handlers |-> hs, prop |-> pr]

RECURSIVE Dispatch(_, _, _, _, _, _)
\* r is what handler i made of the event: the event is consumed when it
\* returned non-zero, else offered to the next handler
Offered(hs, i, ev, pr, mallocOk, ub, r) ==
    IF r.ret # 0 \/ r.crash
    THEN DispatchRes([hs EXCEPT ![i] = r.st],
                     IF r.delProp
                     THEN [pr EXCEPT ![hs[i].window] = AfterRead(@)]
                     ELSE pr,
                     OutRec(r.ret, "-", i, r.sent, r.conv, r.events),
                     r.crash)
    ELSE Dispatch([hs EXCEPT ![i] = r.st], i + 1, ev,
                  IF r.delProp
                  THEN [pr EXCEPT ![hs[i].window] = AfterRead(@)]
                  ELSE pr,
                  mallocOk, ub)

Dispatch(hs, i, ev, pr, mallocOk, ub) ==
    IF i > Len(hs)
    THEN DispatchRes(hs, pr, OutRec(0, "-", 0, <<>>, <<>>, <<>>), FALSE)
    ELSE Offered(hs, i, ev, pr, mallocOk, ub,
                 xdnd_event_handler(hs[i], ev, pr[hs[i].window], mallocOk,
                                    ub))

(***************************************************************************)
(* The X11 state machine                                                   *)
(***************************************************************************)
Times == {7, 8}
\* what an XdndEnter may carry: data.l[1], the inline types and the
\* XdndTypeList property of the source
P3 == <<text_plain, text_plain, text_plain>>
U3 == <<text_plain, text_plain, text_uri_list>>
U1 == <<text_uri_list, None, None>>
Offer(v, more, ts, tl) == <<v * VersionShift + more, ts, tl>>
EnterOffers ==
    { Offer(XDND_VERSION, 0, P3, NoTypeList),
      Offer(XDND_VERSION, 0, U3, NoTypeList),
      Offer(XDND_VERSION, 1, P3, NoTypeList),
      Offer(XDND_VERSION, 1, P3, TypeList(TypeListMax + 1, TypeListMax)),
      Offer(XDND_VERSION, 1, P3, TypeList(TypeListMax + 1, TypeListMax + 1)),
      Offer(XDND_VERSION, 1, U1, TypeList(4, 0)),
      Offer(XDND_VERSION - 2, 0, U1, NoTypeList),
      Offer(XDND_VERSION + 1, 0, U1, NoTypeList) }

DecIn(kind, input) == [kind |-> kind, input |-> input]
DecOut(ub, crash, null, off, str, paths, done) ==
    [ub |-> ub, crash |-> crash, null |-> null, off |-> off, str |-> str,
     paths |-> paths, done |-> done]
NoDecIn == DecIn("none", <<>>)
NoDecOut == DecOut("-", FALSE, FALSE, 0, <<>>, <<>>, FALSE)

Init ==
    /\ handlers = <<>>
    /\ xdndAware = [w \in Windows |-> 0]
    /\ prop = [w \in Windows |-> Absent]
    /\ convPending = [w \in Windows |-> 0]
    /\ dropFrom = [w \in Windows |-> NoWindow]
    /\ lastEv = Ev("Init", NoWindow)
    /\ out = NoOut
    /\ crashed = FALSE
    /\ dIn = NoDecIn
    /\ dOut = NoDecOut
    /\ tdt = NoTdt
    /\ wIn = NoWinCall
    /\ wOut = NoWinRes
    /\ gesture = NoGesture
    /\ RefIdle
    /\ RegIdle("x11")
    /\ AudIdle
    /\ SndIdle

\* mutant: the atoms are not cached in the record
NewXdndStateNoAtoms(w) ==
    [widget_path |-> WidgetPath(w), window |-> w, display |-> TheDisplay,
     atoms |-> <<>>, source_window |-> NoWindow, has_uri_list |-> FALSE]

\* lines 303-326: the zeroed record with its fixed fields and cached atoms
NewXdndState(w) ==
    [widget_path |-> WidgetPath(w), window |-> w, display |-> TheDisplay,
     atoms |-> ProtocolAtoms, source_window |-> NoWindow,
     has_uri_list |-> FALSE]

\* teek_register_drop_target (X11) for the widget whose window id is w;
\* dispOk: Tk_Display and Tk_WindowId are non-null, callocOk: calloc succeeds
teek_register_drop_target_x11(w, dispOk, callocOk) ==
    /\ ~crashed
    /\ (dispOk /\ callocOk) => Len(handlers) < MaxHandlers
    /\ lastEv' = Event("Register", w, None, NoWindow, 0, 0, NoTypes,
                       NoTypeList, None, dispOk, callocOk, "-")
    /\ IF dispOk /\ callocOk
       THEN /\ handlers' = Append(handlers, NewXdndState(w))
            /\ xdndAware' = [xdndAware EXCEPT ![w] = XDND_VERSION]
            /\ out' = [OutRec(0, "TCL_OK", 0, <<>>, <<>>, <<>>)
                           EXCEPT !.interned = NewXdndState(w).atoms]
       ELSE /\ out' = OutRec(0, "TCL_ERROR", 0, <<>>, <<>>, <<>>)
            /\ UNCHANGED <<handlers, xdndAware>>
    /\ UNCHANGED <<prop, convPending, dropFrom, crashed, dIn, dOut, winvars,
                   refvars, audvars, sndvars>>

\* the state after the handlers made d of event ev
Delivered(ev, d) ==
    /\ ~crashed
    /\ handlers' = d.handlers
    /\ prop' = d.prop
    /\ crashed' = d.crash
    /\ convPending' =
           [w \in Windows |->
               (IF /\ ev.type = "SelectionNotify"
                   /\ ev.sel_property = teek_drop_prop
                   /\ ev.window = w
                   /\ convPending[w] > 0
                THEN convPending[w] - 1 ELSE convPending[w])
               + Cardinality({i \in 1..Len(d.out.conv) :
                                 d.out.conv[i].requestor = w})]
    /\ \A w \in Windows : convPending'[w] <= MaxPending
    /\ dropFrom' =
           [w \in Windows |->
               IF \E i \in 1..Len(d.out.conv) : d.out.conv[i].requestor = w
               THEN handlers[d.out.by].source_window
               ELSE IF convPending'[w] = 0 THEN NoWindow
               ELSE dropFrom[w]]
    /\ lastEv' = ev
    /\ out' = d.out
    /\ UNCHANGED <<xdndAware, dIn, dOut, winvars, refvars, regvars, audvars, sndvars>>

\* one X event offered to the generic handlers
Deliver(ev) ==
    Delivered(ev, Dispatch(handlers, 1, ev, prop, ev.allocOk, ev.ub))

\* the events the process can receive: none after it has ended
Arriving(e) == IF crashed THEN {} ELSE {e}

XdndEnter ==
    \E w \in Windows, src \in Sources, o \in EnterOffers :
        \E ev \in Arriving(ClientMessage(w, xdnd_enter, src, o[1], 0, o[2],
                                         o[3])) :
            Deliver(ev)

XdndPosition ==
    \E w \in Windows :
        \E ev \in Arriving(ClientMessage(w, xdnd_position, NoWindow, 0, 0,
                                         NoTypes, NoTypeList)) :
            Deliver(ev)

XdndDrop ==
    \E w \in Windows, t \in Times :
        \E ev \in Arriving(ClientMessage(w, xdnd_drop, NoWindow, 0, t,
                                         NoTypes, NoTypeList)) :
            Deliver(ev)

XdndLeave ==
    \E w \in Windows :
        \E ev \in Arriving(ClientMessage(w, xdnd_leave, NoWindow, 0, 0,
                                         NoTypes, NoTypeList)) :
            Deliver(ev)

\* the inputs of a SelectionNotify: its property, whether malloc succeeds
\* and what an out-of-bounds read yields (chosen only where it can matter)
SelectionInputs ==
    {<<teek_drop_prop, TRUE, ub>> : ub \in UBOutcomes}
    \cup {<<teek_drop_prop, FALSE, "empty">>, <<other_prop, TRUE, "empty">>}

SelectionNotify ==
    \E w \in Windows, i \in SelectionInputs :
        \E ev \in Arriving(Event("SelectionNotify", w, None, NoWindow, 0, 0,
                                 NoTypes, NoTypeList, i[1], TRUE, i[2],
                                 i[3])) :
            Deliver(ev)

OtherEvent ==
    \E w \in Windows : \E ev \in Arriving(Ev("Expose", w)) : Deliver(ev)

\* the selection owner stores the converted data on the requestor
OwnerStoresSelection ==
    \E w \in {x \in Windows : convPending[x] > 0}, c \in StoreChoices :
        /\ ~crashed
        /\ prop' = [prop EXCEPT ![w] = StoredWith(c[1], c[2])]
        /\ lastEv' = Ev("StoreSelection", w)
        /\ out' = NoOut
        /\ UNCHANGED <<handlers, xdndAware, convPending, dropFrom, crashed, dIn, dOut,
                       winvars, refvars, regvars, audvars, sndvars>>

Register ==
    \E w \in Windows, dispOk \in BOOLEAN, callocOk \in BOOLEAN :
        /\ dispOk \/ callocOk
        /\ teek_register_drop_target_x11(w, dispOk, callocOk)
        /\ UNCHANGED regvars

Next ==
    \/ Register
    \/ XdndEnter
    \/ XdndPosition
    \/ XdndDrop
    \/ XdndLeave
    \/ SelectionNotify
    \/ OtherEvent
    \/ OwnerStoresSelection

Spec == Init /\ [][Next]_vars

(***************************************************************************)
(* The decoder run on its own: Init draws an input, one step decodes it    *)
(***************************************************************************)
\* '/', '%', '0', '2', 'a', 'F'
TailAlphabet == {Slash, Pct, 48, 50, 97, 70}
Tails == UNION {[1..n -> TailAlphabet] : n \in 0..MaxTail}
\* "file://", "file://localhost", "file://h", "file://hostnamexy",
\* "http://" and "file:/"
UriPrefixes ==
    { FileScheme, FileScheme \o Localhost, FileScheme \o <<104>>,
      FileScheme \o <<104, 111, 115, 116, 110, 97, 109, 101, 120, 121>>,
      <<104, 116, 116, 112, 58, 47, 47>>, <<102, 105, 108, 101, 58, 47>> }
UriInputs == {p \o t : p \in UriPrefixes, t \in Tails}

\* the lines and separators of the enumerated payloads
PayloadLines ==
    { <<>>, <<Hash, 99>>, UriA, UriB, UriHttp, UriHostA, UriB \o <<CR>> }
PayloadUnits == {l \o sp : l \in PayloadLines, sp \in {CRLF, <<LF>>}}
RECURSIVE Flatten(_)
Flatten(ss) == IF ss = <<>> THEN <<>> ELSE Head(ss) \o Flatten(Tail(ss))
\* "file:///a.txt\r\n#comment\r\n\r\nfile:///b.txt\r\n"
ATxt == <<47, 97, 46, 116, 120, 116>>
BTxt == <<47, 98, 46, 116, 120, 116>>
ExampleList ==
    FileScheme \o ATxt \o CRLF
    \o <<Hash, 99, 111, 109, 109, 101, 110, 116>> \o CRLF \o CRLF
    \o FileScheme \o BTxt \o CRLF
ListInputs ==
    {Flatten(us) \o last :
        us \in UNION {[1..n -> PayloadUnits] : n \in 0..MaxLines},
        last \in {<<>>, UriA}}
    \cup {ExampleList}

InitDecode ==
    /\ handlers = <<>>
    /\ xdndAware = [w \in Windows |-> 0]
    /\ prop = [w \in Windows |-> Absent]
    /\ convPending = [w \in Windows |-> 0]
    /\ dropFrom = [w \in Windows |-> NoWindow]
    /\ lastEv = Ev("Init", NoWindow)
    /\ out = NoOut
    /\ crashed = FALSE
    /\ \E k \in {"uri", "list"} :
           \E d \in (IF k = "uri" THEN UriInputs ELSE ListInputs) :
               dIn = DecIn(k, d)
    /\ dOut = NoDecOut
    /\ tdt = NoTdt
    /\ wIn = NoWinCall
    /\ wOut = NoWinRes
    /\ gesture = NoGesture
    /\ RefIdle
    /\ RegIdle("x11")
    /\ AudIdle
    /\ SndIdle

\* uri_to_path on the input, and the read of the returned string
DecodeUri ==
    /\ dIn.kind = "uri"
    /\ ~dOut.done
    /\ \E ub \in UBOutcomes :
           LET r == uri_to_path(dIn.input)
               used == ~r.null /\ ~InBounds(r)
               p == IF r.null THEN [crash |-> FALSE, str |-> <<>>]
                    ELSE ReadPath(r, ub)
           IN  /\ ~used => ub = "empty"
               /\ dOut' = DecOut(IF used THEN ub ELSE "-", p.crash, r.null,
                                 r.off, p.str, <<>>, TRUE)
    /\ UNCHANGED <<dIn, x11vars, winvars, refvars, regvars, audvars, sndvars>>

\* process_uri_list on the input
DecodeList ==
    /\ dIn.kind = "list"
    /\ ~dOut.done
    /\ \E ub \in UBOutcomes :
           LET r == process_uri_list(dIn.input, ub)
           IN  dOut' = DecOut(ub, r.crash, FALSE, 0, <<>>, r.paths, TRUE)
    /\ UNCHANGED <<dIn, x11vars, winvars, refvars, regvars, audvars, sndvars>>

NextDecode == DecodeUri \/ DecodeList

SpecDecode == InitDecode /\ [][NextDecode]_vars

(***************************************************************************)
(* The Windows adapter: one registered window, called by OLE               *)
(***************************************************************************)
Repeat(u, n) == [i \in 1..n |-> u]
\* native names: "a", "b" + e-acute, U+20AC, U+1F600 as a surrogate pair, a
\* high surrogate on its own, and names of MAX_PATH - 1 and MAX_PATH
\* characters
WNames ==
    { <<97>>, <<98, 233>>, <<8364>>, <<55357, 56832>>, <<55357>>,
      Repeat(97, MAX_PATH - 1), Repeat(97, MAX_PATH) }
DropEntries ==
    {DropEntry(n, "ok") : n \in WNames}
    \cup {DropEntry(<<97>>, k) : k \in {"query", "convert", "malloc"}}
FileLists == UNION {[1..n -> DropEntries] : n \in 0..MaxFiles}
\* what the data object gives: GetData fails, GlobalLock fails, or a list
Extractions ==
    {<<DV_E_FORMATETC, TRUE, <<>>>>, <<E_OUTOFMEMORY, TRUE, <<>>>>,
     <<S_OK, FALSE, <<>>>>}
    \cup {<<S_OK, TRUE, fs>> : fs \in FileLists}

\* the state after teek_register_drop_target succeeded for one window
InitWin ==
    /\ handlers = <<>>
    /\ xdndAware = [w \in Windows |-> 0]
    /\ prop = [w \in Windows |-> Absent]
    /\ convPending = [w \in Windows |-> 0]
    /\ dropFrom = [w \in Windows |-> NoWindow]
    /\ lastEv = Ev("Init", NoWindow)
    /\ out = NoOut
    /\ crashed = FALSE
    /\ dIn = NoDecIn
    /\ dOut = NoDecOut
    /\ \E w \in Windows : tdt = TeekDropTarget(1, WidgetPath(w), w)
    /\ wIn = NoWinCall
    /\ wOut = NoWinRes
    /\ gesture = NoGesture
    /\ RefIdle
    /\ RegIdle("win")
    /\ AudIdle
    /\ SndIdle

\* the calls OLE and other holders make: none once the adapter is freed
Passed(o) == IF tdt.ref_count > 0 THEN {o} ELSE {}

\* the state after call name, made with data object obj, did r
Called(name, obj, r, g) ==
    /\ tdt' = r.tdt
    /\ wIn' = WinCall(name, obj)
    /\ wOut' = r
    /\ gesture' = g
    /\ UNCHANGED <<x11vars, dIn, dOut, refvars, regvars, audvars, sndvars>>

AddRef ==
    \E o \in Passed(NoDataObject) :
        /\ tdt.ref_count < MaxRef
        /\ Called("AddRef", o, tdt_AddRef(tdt), gesture)

\* OLE holds its reference while a gesture is in progress
Release ==
    \E o \in Passed(NoDataObject) :
        /\ gesture.active => tdt.ref_count > 1
        /\ Called("Release", o, tdt_Release(tdt), gesture)

DragEnter ==
    \E q \in BOOLEAN :
        \E o \in Passed(Advertising(q)) :
            /\ ~gesture.active
            /\ Called("DragEnter", o, tdt_DragEnter(tdt, o), Gesture(TRUE, o))

DragOver ==
    \E o \in Passed(gesture.obj) :
        /\ gesture.active
        /\ Called("DragOver", o, tdt_DragOver(tdt), gesture)

DragLeave ==
    \E o \in Passed(gesture.obj) :
        /\ gesture.active
        /\ Called("DragLeave", o, tdt_DragLeave(tdt), Gesture(FALSE, o))

\* x is what the data object of the gesture gives when asked
Drop ==
    \E x \in Extractions :
        \E o \in Passed(DataObject(gesture.obj.query, x[1], x[2], x[3])) :
            /\ gesture.active
            /\ Called("Drop", o, tdt_Drop(tdt, o), Gesture(FALSE, o))

NextWin ==
    \/ AddRef
    \/ Release
    \/ DragEnter
    \/ DragOver
    \/ DragLeave
    \/ Drop

SpecWin == InitWin /\ [][NextWin]_vars

(***************************************************************************)
(* The reference count of the adapter, called from several threads         *)
(***************************************************************************)
IID_IUnknown == "IID_IUnknown"
IID_IDropTarget == "IID_IDropTarget"
IID_IDataObject == "IID_IDataObject"
E_NOINTERFACE == "E_NOINTERFACE"
InterfaceIds == {IID_IUnknown, IID_IDropTarget, IID_IDataObject}

\* tdt_QueryInterface: the adapter afterwards, the HRESULT and *ppv
tdt_QueryInterface(a, riid) ==
    IF riid = IID_IUnknown \/ riid = IID_IDropTarget
    THEN [tdt |-> tdt_AddRef(a).tdt, hr |-> S_OK, ppv |-> "self"]
    ELSE [tdt |-> a, hr |-> E_NOINTERFACE, ppv |-> "NULL"]

\* mutant: Release tests the shared counter again instead of the value
\* its decrement returned
FreesOnSharedCount(a, count) == a.ref_count = 0

\* line 61: Release frees the adapter when its own decrement returned 0
FreesOnReturnedCount(a, count) == count = 0

\* a call is made through an interface pointer, so while a reference is
\* held; t is not inside another call
MayCall(t) == tdt.ref_count > 0 /\ rel[t] = NotReleasing

\* the state after a step of a reference-count call
Counted(a, r, log) ==
    /\ tdt' = a
    /\ rel' = r
    /\ refLog' = log
    /\ UNCHANGED <<x11vars, dIn, dOut, wIn, wOut, gesture, regvars, audvars, sndvars>>

\* tdt_AddRef: one InterlockedIncrement
AddRefBy(t) ==
    /\ MayCall(t)
    /\ tdt.ref_count < MaxRef
    /\ refLog.addref + refLog.qi < MaxCalls
    /\ Counted(tdt_AddRef(tdt).tdt, rel,
               [refLog EXCEPT !.addref = @ + 1, !.call = "AddRef",
                              !.ppv = "-"])

\* tdt_QueryInterface
QueryInterfaceBy(t, riid) ==
    /\ MayCall(t)
    /\ tdt.ref_count < MaxRef
    /\ refLog.addref + refLog.qi < MaxCalls
    /\ Counted(tdt_QueryInterface(tdt, riid).tdt, rel,
               [refLog EXCEPT
                   !.qi = IF tdt_QueryInterface(tdt, riid).hr = S_OK
                          THEN @ + 1 ELSE @,
                   !.call = "QueryInterface",
                   !.ppv = tdt_QueryInterface(tdt, riid).ppv])

\* line 60: the InterlockedDecrement of tdt_Release; t keeps the result
ReleaseDecrement(t) ==
    /\ MayCall(t)
    /\ Counted([tdt EXCEPT !.ref_count = @ - 1],
               [rel EXCEPT ![t] = tdt.ref_count - 1],
               [refLog EXCEPT !.release = @ + 1, !.call = "Release",
                              !.ppv = "-"])

\* lines 61-65: the rest of tdt_Release in thread t
ReleaseReturn(t) ==
    /\ rel[t] # NotReleasing
    /\ IF FreesOnReturnedCount(tdt, rel[t])
       THEN Counted(NoTdt, [rel EXCEPT ![t] = NotReleasing],
                    [refLog EXCEPT !.destroyed = @ + 1,
                                   !.call = "ReleaseReturn", !.ppv = "-"])
       ELSE Counted(tdt, [rel EXCEPT ![t] = NotReleasing],
                    [refLog EXCEPT !.call = "ReleaseReturn", !.ppv = "-"])

ThreadAddRef == \E t \in Threads : AddRefBy(t)
ThreadQueryInterface ==
    \E t \in Threads, riid \in InterfaceIds : QueryInterfaceBy(t, riid)
ThreadReleaseDecrement == \E t \in Threads : ReleaseDecrement(t)
ThreadReleaseReturn == \E t \in Threads : ReleaseReturn(t)

NextRef ==
    \/ ThreadAddRef
    \/ ThreadQueryInterface
    \/ ThreadReleaseDecrement
    \/ ThreadReleaseReturn

SpecRef == InitWin /\ [][NextRef]_vars

(***************************************************************************)
(* Interp#register_drop_target and the adapters it delegates to           *)
(***************************************************************************)
MaxOle == 3
TCL_OK == "TCL_OK"
TCL_ERROR == "TCL_ERROR"
DRAGDROP_E_ALREADYREGISTERED == "DRAGDROP_E_ALREADYREGISTERED"
DRAGDROP_E_INVALIDHWND == "DRAGDROP_E_INVALIDHWND"
Platforms == {"x11", "win", "none"}
\* the window paths a caller may pass: those of the widgets, and one of no
\* widget
NoSuchPath == ".nope"
WindowPaths == {WidgetPath(w) : w \in Windows} \cup {NoSuchPath}
\* Tk_NameToWindow
Tk_NameToWindow(path) ==
    IF \E w \in Windows : WidgetPath(w) = path
    THEN CHOOSE w \in Windows : WidgetPath(w) = path
    ELSE NoWindow

\* mutant: every call initialises the subsystem anew
OleInitializeEachTime(count, ok) == IF ok THEN S_OK ELSE E_OUTOFMEMORY

\* OleInitialize(NULL) on a thread whose initialisation count is count:
\* S_OK when it initialises the subsystem, S_FALSE when the subsystem is
\* initialised already; ok: the first initialisation succeeds
OleInitialize(count, ok) ==
    IF count > 0 THEN S_FALSE ELSE IF ok THEN S_OK ELSE E_OUTOFMEMORY

\* RegisterDragDrop(hwnd, target) with targets the windows that have one
RegisterDragDrop(targets, w, ok) ==
    IF w \in targets THEN DRAGDROP_E_ALREADYREGISTERED
    ELSE IF ok THEN S_OK ELSE DRAGDROP_E_INVALIDHWND

\* the result of the adapter: the OLE state, the return code and the
\* message left in the interpreter
AdapterRes(r, rc, msg) == [winReg |-> r, rc |-> rc, msg |-> msg]

\* lines 190-194 done: a successful OleInitialize counts on the thread
Initialised(r, hr) ==
    [r EXCEPT !.oleCount = @ + 1,
              !.oleInits = IF hr = S_OK THEN @ + 1 ELSE @]

\* lines 196-219, with r the OLE state after OleInitialize
AfterOleInitialize(r, w, mallocOk, regOk) ==
    IF ~mallocOk THEN AdapterRes(r, TCL_ERROR, "out of memory")
    ELSE IF ~FAILED(RegisterDragDrop(r.targets, w, regOk))
    THEN AdapterRes([r EXCEPT !.targets = @ \cup {w},
                              !.allocated = @ + 1], TCL_OK, "-")
    ELSE IF RegisterDragDrop(r.targets, w, regOk)
                = DRAGDROP_E_ALREADYREGISTERED
    THEN AdapterRes(r, TCL_OK, "-")
    ELSE AdapterRes(r, TCL_ERROR, "RegisterDragDrop failed")

\* teek_register_drop_target (Windows) for the widget whose window is w;
\* o: whether Tk_WindowId, Tk_GetHWND, the first OleInitialize, malloc and
\* RegisterDragDrop succeed
teek_register_drop_target_win(r, w, o) ==
    IF ~o[1] THEN AdapterRes(r, TCL_ERROR, "window has no native handle")
    ELSE IF ~o[2] THEN AdapterRes(r, TCL_ERROR, "could not get HWND")
    ELSE IF FAILED(OleInitialize(r.oleCount, o[3]))
    THEN AdapterRes(r, TCL_ERROR, "OleInitialize failed")
    ELSE AfterOleInitialize(Initialised(r, OleInitialize(r.oleCount, o[3])),
                            w, o[4], o[5])

\* teek_register_drop_target of a build for another platform
teek_register_drop_target_none(r) ==
    AdapterRes(r, TCL_ERROR, "file drop not supported on this platform")

\* mutant: a failure of the adapter is not raised
RaisedIgnoringAdapter(main, found, rc) ==
    IF ~main THEN "Tk not initialized (no main window)"
    ELSE IF ~found THEN "window not found"
    ELSE "-"

\* the error Interp#register_drop_target raises ("-": none)
Raised(main, found, rc) ==
    IF ~main THEN "Tk not initialized (no main window)"
    ELSE IF ~found THEN "window not found"
    ELSE IF rc # TCL_OK THEN "failed to register drop target"
    ELSE "-"

\* the functions it calls, in order
CallsMade(main, found) ==
    IF ~main THEN <<"Tk_MainWindow">>
    ELSE IF ~found THEN <<"Tk_MainWindow", "Tk_NameToWindow">>
    ELSE <<"Tk_MainWindow", "Tk_NameToWindow", "Tk_MakeWindowExist",
           "teek_register_drop_target">>

InitReg ==
    /\ X11Idle
    /\ lastEv = Ev("Init", NoWindow)
    /\ out = NoOut
    /\ dIn = NoDecIn
    /\ dOut = NoDecOut
    /\ WinIdle
    /\ RefIdle
    /\ AudIdle
    /\ SndIdle
    /\ platform \in Platforms
    /\ \E main \in BOOLEAN : tk = TkState(main, {})
    /\ winReg = NoWinReg
    /\ regOut = NoRegOut

\* lines 35-43: the call ends before the adapter is reached
RegisterRefused(path) ==
    /\ ~tk.main \/ Tk_NameToWindow(path) = NoWindow
    /\ regOut' = RegOut(path,
                        Raised(tk.main, Tk_NameToWindow(path) # NoWindow,
                               "-"),
                        CallsMade(tk.main, Tk_NameToWindow(path) # NoWindow),
                        "-", "-")
    /\ UNCHANGED <<x11vars, dIn, dOut, winvars, refvars, audvars, sndvars, platform,
                   tk, winReg>>

\* the call on an X11 build
RegisterX11(path, o) ==
    /\ platform = "x11"
    /\ tk.main /\ Tk_NameToWindow(path) # NoWindow
    /\ tk' = [tk EXCEPT !.made = @ \cup {Tk_NameToWindow(path)}]
    /\ teek_register_drop_target_x11(Tk_NameToWindow(path), o[1], o[4])
    /\ regOut' = RegOut(path, Raised(TRUE, TRUE, out'.rc),
                        CallsMade(TRUE, TRUE), out'.rc,
                        IF out'.rc = TCL_OK THEN "-"
                        ELSE IF o[1] THEN "out of memory"
                        ELSE "window has no X11 display/id")
    /\ UNCHANGED <<platform, winReg>>

\* the state after the call reached an adapter that keeps no X11 state
\* and that adapter did a
Adapted(path, a) ==
    /\ tk.main /\ Tk_NameToWindow(path) # NoWindow
    /\ tk' = [tk EXCEPT !.made = @ \cup {Tk_NameToWindow(path)}]
    /\ winReg' = a.winReg
    /\ regOut' = RegOut(path, Raised(TRUE, TRUE, a.rc),
                        CallsMade(TRUE, TRUE), a.rc, a.msg)
    /\ UNCHANGED <<x11vars, dIn, dOut, winvars, refvars, audvars, sndvars, platform>>

\* the call on a Windows build
RegisterWin(path, o) ==
    /\ platform = "win"
    /\ winReg.oleCount < MaxOle
    /\ Adapted(path, teek_register_drop_target_win(winReg,
                                                   Tk_NameToWindow(path), o))

\* the call on a build for another platform
RegisterNone(path) ==
    /\ platform = "none"
    /\ Adapted(path, teek_register_drop_target_none(winReg))

\* what can go wrong in a call: native handle or display, HWND,
\* OleInitialize, allocation, RegisterDragDrop; at most one of them fails
Outcomes ==
    {o \in [1..5 -> BOOLEAN] : Cardinality({i \in 1..5 : ~o[i]}) <= 1}

\* Interp#register_drop_target(window_path)
interp_register_drop_target ==
    \E path \in WindowPaths :
        \/ RegisterRefused(path)
        \/ \E o \in Outcomes : RegisterX11(path, o)
        \/ \E o \in Outcomes : RegisterWin(path, o)
        \/ RegisterNone(path)

\* the main window of the interpreter is created or destroyed
TkMainWindow ==
    /\ tk' = TkState(~tk.main, {})
    /\ regOut' = NoRegOut
    /\ UNCHANGED <<x11vars, dIn, dOut, winvars, refvars, audvars, sndvars, platform,
                   winReg>>

NextReg ==
    \/ interp_register_drop_target
    \/ TkMainWindow

SpecReg == InitReg /\ [][NextReg]_vars

(***************************************************************************)
(* Audio capture: sdl2mixer.c.  The Ruby calls run one at a time; the      *)
(* post-mix callback runs on the audio thread of SDL while the device is   *)
(* open and the callback is installed.                                     *)
(***************************************************************************)
MaxBytes == 3
Lens == {0, 1, 2}
MixFrequency == 44100
MixChannels == 2
AUDIO_S16LSB == "AUDIO_S16LSB"
AUDIO_F32LSB == "AUDIO_F32LSB"
Formats == {AUDIO_S16LSB, AUDIO_F32LSB}

\* lines 15-32: [mixer, raised]; the device chooses the format it opens
\* with
ensure_mixer_init(m, openOk, fmt) ==
    IF m.initialized THEN [mixer |-> m, raised |-> "-"]
    ELSE IF ~openOk THEN [mixer |-> m, raised |-> "Mix_OpenAudio failed"]
    ELSE [mixer |-> [m EXCEPT !.initialized = TRUE, !.format = fmt],
          raised |-> "-"]

\* lines 495-503
mixer_close_audio(m) ==
    IF m.initialized
    THEN [m EXCEPT !.initialized = FALSE, !.format = NoFormat]
    ELSE m

\* lines 547-555: the callback adds len to the byte counter (a Uint32; the
\* guard of Postmix keeps it within MaxBytes, far from wrapping)
capture_postmix(c, len) ==
    IF c.file # NoFile /\ len > 0
    THEN [c EXCEPT !.data_bytes = @ + len]
    ELSE c

\* what a call leaves: the capture, the mixer, and the message raised
AudioRes(c, m, raised) == [cap |-> c, mixer |-> m, raised |-> raised]

\* a stop that leaves the file pointer in place
StoppedCaptureKeepsFile(c) == Capture(c.file, 0, c.freq, c.channels)

\* lines 622-623: the file pointer and the byte counter are reset; the
\* frequency and the channel count stay
StoppedCapture(c) == Capture(NoFile, 0, c.freq, c.channels)

\* lines 571-599, the part of mixer_start_capture after the test at 567
StartedCapture(c, m, path, fopenOk) ==
    IF m.format # AUDIO_S16LSB
    THEN AudioRes(c, m, "audio capture requires S16LE format")
    ELSE IF ~fopenOk
    THEN AudioRes(c, m, "cannot open capture file")
    ELSE AudioRes(Capture(path, 0, MixFrequency, MixChannels),
                  [m EXCEPT !.postmix = TRUE, !.files[path] = 0,
                            !.open = @ \cup {path}],
                  "-")

\* lines 564-602
mixer_start_capture(c, m, path, openOk, fmt, fopenOk) ==
    IF c.file # NoFile
    THEN AudioRes(c, m, "audio capture already in progress")
    ELSE IF ensure_mixer_init(m, openOk, fmt).raised # "-"
    THEN AudioRes(c, m, ensure_mixer_init(m, openOk, fmt).raised)
    ELSE StartedCapture(c, ensure_mixer_init(m, openOk, fmt).mixer, path,
                        fopenOk)

\* lines 610-626: the header is rewritten with the byte count and the file
\* is closed
mixer_stop_capture(c, m) ==
    IF c.file = NoFile THEN AudioRes(c, m, "-")
    ELSE AudioRes(StoppedCapture(c),
                  [m EXCEPT !.postmix = FALSE,
                            !.files[c.file] = c.data_bytes,
                            !.open = @ \ {c.file}],
                  "-")

InitAudio ==
    /\ X11Idle
    /\ lastEv = Ev("Init", NoWindow)
    /\ out = NoOut
    /\ dIn = NoDecIn
    /\ dOut = NoDecOut
    /\ WinIdle
    /\ RefIdle
    /\ RegIdle("x11")
    /\ AudIdle
    /\ SndIdle

AudioCall(call, r) ==
    /\ cap' = r.cap
    /\ mixer' = r.mixer
    /\ aOut' = AudioOut(call, r.raised)
    /\ UNCHANGED <<x11vars, dIn, dOut, winvars, refvars, regvars, sndvars>>

StartCapture ==
    \E path \in CapturePaths, openOk \in BOOLEAN, fmt \in Formats,
       fopenOk \in BOOLEAN :
        AudioCall("start",
                  mixer_start_capture(cap, mixer, path, openOk, fmt,
                                      fopenOk))

StopCapture == AudioCall("stop", mixer_stop_capture(cap, mixer))

OpenAudio ==
    \E openOk \in BOOLEAN, fmt \in Formats :
        AudioCall("open",
                  AudioRes(cap, ensure_mixer_init(mixer, openOk, fmt).mixer,
                           ensure_mixer_init(mixer, openOk, fmt).raised))

CloseAudio == AudioCall("close", AudioRes(cap, mixer_close_audio(mixer), "-"))

\* the audio thread: one buffer of len bytes has been mixed
Postmix ==
    \E len \in Lens :
        /\ mixer.initialized
        /\ mixer.postmix
        /\ cap.data_bytes + len <= MaxBytes
        /\ AudioCall("postmix", AudioRes(capture_postmix(cap, len), mixer, "-"))

NextAudio ==
    \/ StartCapture
    \/ StopCapture
    \/ OpenAudio
    \/ CloseAudio
    \/ Postmix

SpecAudio == InitAudio /\ [][NextAudio]_vars

(***************************************************************************)
(* Sound: sdl2mixer.c.  A Sound is created by sound_alloc and initialised  *)
(* once by sound_initialize; the collector finalises it with sound_free    *)
(* when the program holds no reference, after which it gets no call.       *)
(***************************************************************************)
\* the volume: keyword as play accepts it: not given, or an integer
VolumeArgs == {<<FALSE, 0>>, <<TRUE, -5>>, <<TRUE, 64>>, <<TRUE, 200>>}
\* lines 145-147: the volume clamped to 0..MIX_MAX_VOLUME
Clamp(v) == IF v < 0 THEN 0 ELSE IF v > MIX_MAX_VOLUME THEN MIX_MAX_VOLUME
            ELSE v

\* Mix_FreeChunk
Mix_FreeChunk(c) == [c EXCEPT !.state = "freed", !.frees = @ + 1]
\* a use of the chunk by the mixer: undefined once it is freed
Used(c) == IF c.state = "live" THEN c ELSE [c EXCEPT !.misused = TRUE]
\* Mix_VolumeChunk(chunk, v): sets the volume unless v is negative
Mix_VolumeChunk(c, v) ==
    IF v < 0 THEN Used(c) ELSE [Used(c) EXCEPT !.volume = v]

\* what a call leaves: the struct, the chunk, the message raised, and the
\* integer and the boolean returned
SoundRes(st, c, raised, ret, flag) ==
    [st |-> st, chunk |-> c, raised |-> raised, ret |-> ret, flag |-> flag]

\* lines 81-90: does get_sound raise
get_sound_raises(st) == st.destroyed \/ st.chunk = NoChunk

\* lines 46-50 and 219-223: the chunk is freed when the Sound is neither
\* destroyed nor unloaded
Released(st, c) ==
    IF ~st.destroyed /\ st.chunk # NoChunk
    THEN SoundRes(sdl2_sound(NoChunk, TRUE), Mix_FreeChunk(c), "-", 0, FALSE)
    ELSE SoundRes(st, c, "-", 0, FALSE)

\* lines 43-53 (the struct itself is released by xfree)
sound_free(st, c) == Released(st, c)

\* lines 214-226
sound_destroy(st, c) == Released(st, c)

\* lines 231-237
sound_destroyed_p(st, c) == SoundRes(st, c, "-", 0, st.destroyed)

\* lines 97-113, after ensure_mixer_init: id is the chunk Mix_LoadWAV
\* returns
sound_initialize(st, c, id, loadOk) ==
    IF ~loadOk THEN SoundRes(st, c, "Mix_LoadWAV failed", 0, FALSE)
    ELSE SoundRes([st EXCEPT !.chunk = id], [c EXCEPT !.state = "live"],
                  "-", 0, FALSE)

\* lines 125-165: channel is what Mix_PlayChannel returns
sound_play(st, c, vol, channel) ==
    IF get_sound_raises(st)
    THEN SoundRes(st, c, "sound has been destroyed", 0, FALSE)
    ELSE IF channel < 0
    THEN SoundRes(st,
                  Used(IF vol[1] THEN Mix_VolumeChunk(c, Clamp(vol[2]))
                       ELSE c),
                  "Mix_PlayChannel failed", 0, FALSE)
    ELSE SoundRes(st,
                  Used(IF vol[1] THEN Mix_VolumeChunk(c, Clamp(vol[2]))
                       ELSE c),
                  "-", channel, FALSE)

\* lines 185-194
sound_set_volume(st, c, v) ==
    IF get_sound_raises(st)
    THEN SoundRes(st, c, "sound has been destroyed", 0, FALSE)
    ELSE SoundRes(st, Mix_VolumeChunk(c, Clamp(v)), "-", v, FALSE)

\* lines 201-207
sound_get_volume(st, c) ==
    IF get_sound_raises(st)
    THEN SoundRes(st, c, "sound has been destroyed", 0, FALSE)
    ELSE SoundRes(st, Mix_VolumeChunk(c, -1), "-", c.volume, FALSE)

InitSound ==
    /\ X11Idle
    /\ lastEv = Ev("Init", NoWindow)
    /\ out = NoOut
    /\ dIn = NoDecIn
    /\ dOut = NoDecOut
    /\ WinIdle
    /\ RefIdle
    /\ RegIdle("x11")
    /\ AudIdle
    /\ SndIdle

\* the state after call, made on Sound s, did r
SoundCall(call, s, r, collected, log) ==
    /\ snd' = [snd EXCEPT ![s] = SoundObj(collected, r.st)]
    /\ chunks' = [chunks EXCEPT ![s] = r.chunk]
    /\ sndLog' = [sndLog EXCEPT ![s] = log]
    /\ sndOut' = SoundOut(call, s, r.raised, r.ret, r.flag)
    /\ UNCHANGED <<x11vars, dIn, dOut, winvars, refvars, regvars, cap, aOut>>

\* the Sounds the program can call
Reachable == {s \in Sounds : ~snd[s].collected}

\* Sound.new: sound_initialize on a Sound that was not initialised before
SoundInitialize ==
    \E s \in Reachable, openOk \in BOOLEAN, loadOk \in BOOLEAN :
        /\ chunks[s].state = "none"
        /\ ~sndLog[s].destroyCalled
        /\ mixer' = ensure_mixer_init(mixer, openOk, AUDIO_S16LSB).mixer
        /\ IF ensure_mixer_init(mixer, openOk, AUDIO_S16LSB).raised # "-"
           THEN SoundCall("initialize", s,
                          SoundRes(snd[s].st, chunks[s],
                                   "Mix_OpenAudio failed", 0, FALSE),
                          FALSE, sndLog[s])
           ELSE SoundCall("initialize", s,
                          sound_initialize(snd[s].st, chunks[s], s, loadOk),
                          FALSE, SoundLog(loadOk, FALSE))

SoundPlay ==
    \E s \in Reachable, vol \in VolumeArgs, channel \in {-1, 0} :
        /\ SoundCall("play", s,
                     sound_play(snd[s].st, chunks[s], vol, channel),
                     FALSE, sndLog[s])
        /\ UNCHANGED mixer

SoundSetVolume ==
    \E s \in Reachable, v \in {-5, 64, 200} :
        /\ SoundCall("volume=", s,
                     sound_set_volume(snd[s].st, chunks[s], v),
                     FALSE, sndLog[s])
        /\ UNCHANGED mixer

SoundGetVolume ==
    \E s \in Reachable :
        /\ SoundCall("volume", s, sound_get_volume(snd[s].st, chunks[s]),
                     FALSE, sndLog[s])
        /\ UNCHANGED mixer

SoundDestroy ==
    \E s \in Reachable :
        /\ SoundCall("destroy", s, sound_destroy(snd[s].st, chunks[s]),
                     FALSE, [sndLog[s] EXCEPT !.destroyCalled = TRUE])
        /\ UNCHANGED mixer

SoundDestroyedP ==
    \E s \in Reachable :
        /\ SoundCall("destroyed?", s,
                     sound_destroyed_p(snd[s].st, chunks[s]),
                     FALSE, sndLog[s])
        /\ UNCHANGED mixer

\* the collector finalises a Sound
SoundFree ==
    \E s \in Reachable :
        /\ SoundCall("free", s, sound_free(snd[s].st, chunks[s]), TRUE,
                     sndLog[s])
        /\ UNCHANGED mixer

NextSound ==
    \/ SoundInitialize
    \/ SoundPlay
    \/ SoundSetVolume
    \/ SoundGetVolume
    \/ SoundDestroy
    \/ SoundDestroyedP
    \/ SoundFree

SpecSound == InitSound /\ [][NextSound]_vars

(***************************************************************************)
(* Reference definitions the properties are stated with                    *)
(***************************************************************************)
\* the hexadecimal digits and their values, by position
HexChars ==
    <<48, 49, 50, 51, 52, 53, 54, 55, 56, 57, 65, 66, 67, 68, 69, 70,
      97, 98, 99, 100, 101, 102>>
IsHex(c) == \E k \in 1..Len(HexChars) : HexChars[k] = c
HexVal(c) ==
    LET k == CHOOSE k \in 1..Len(HexChars) : HexChars[k] = c
    IN  IF k <= 16 THEN k - 1 ELSE k - 7

\* percent-decoding of a byte string: "%" and two hexadecimal digits give
\* one byte, every other byte stands for itself
RECURSIVE PctDecode(_)
PctDecode(s) ==
    IF s = <<>> THEN <<>>
    ELSE IF s[1] = Pct /\ Len(s) >= 3 /\ IsHex(s[2]) /\ IsHex(s[3])
    THEN <<HexVal(s[2]) * 16 + HexVal(s[3])>>
         \o PctDecode(SubSeq(s, 4, Len(s)))
    ELSE <<s[1]>> \o PctDecode(Tail(s))

\* the bytes of s before its first NUL: s as a C string
RECURSIVE UpToNul(_)
UpToNul(s) ==
    IF s = <<>> \/ s[1] = NUL THEN <<>> ELSE <<s[1]>> \o UpToNul(Tail(s))

HasPrefix(s, p) == Len(s) >= Len(p) /\ SubSeq(s, 1, Len(p)) = p
SkipFirst(s, n) == SubSeq(s, n + 1, Len(s))

\* the part of s from its first "/" on (empty when there is none)
RECURSIVE FromSlash(_)
FromSlash(s) ==
    IF s = <<>> THEN <<>>
    ELSE IF s[1] = Slash THEN s ELSE FromSlash(Tail(s))

\* the lines of a payload: the pieces between CR LF pairs
RECURSIVE SplitCRLF(_, _)
SplitCRLF(s, cur) ==
    IF s = <<>> THEN <<cur>>
    ELSE IF Len(s) >= 2 /\ s[1] = CR /\ s[2] = LF
    THEN <<cur>> \o SplitCRLF(SkipFirst(s, 2), <<>>)
    ELSE SplitCRLF(Tail(s), Append(cur, s[1]))

\* the path a file URI line names: the host is dropped, the rest is
\* percent-decoded
LinePath(ln) == PctDecode(FromSlash(SkipFirst(ln, Len(FileScheme))))

IsFileLine(ln) == ln # <<>> /\ ln[1] # Hash /\ HasPrefix(ln, FileScheme)

RECURSIVE PathsOfLines(_)
PathsOfLines(ls) ==
    IF ls = <<>> THEN <<>>
    ELSE (IF IsFileLine(Head(ls)) /\ LinePath(Head(ls)) # <<>>
          THEN <<LinePath(Head(ls))>> ELSE <<>>)
         \o PathsOfLines(Tail(ls))

\* the list of decoded paths a payload stands for
ExpectedPaths(data) == PathsOfLines(SplitCRLF(data, <<>>))

\* the steps properties speak about
IsClientMessage(ev, mt) == ev.type = "ClientMessage" /\ ev.message_type = mt
IsDropNotify(ev) ==
    ev.type = "SelectionNotify" /\ ev.sel_property = teek_drop_prop

(***************************************************************************)
(* Properties of the X11 state machine (Spec)                              *)
(***************************************************************************)
\* C1 (stated as in the specification; refuted): every completed drop -- a
\* SelectionNotify for the drop property that finds transferred data on a
\* window with a conversion outstanding -- emits exactly one drop event,
\* to the registered widget, whose payload is the list of all decoded paths
C1_OneEventWithAllPaths ==
    [][ ( /\ IsDropNotify(lastEv')
          /\ lastEv'.allocOk
          /\ Len(handlers) >= 1
          /\ handlers[1].window = lastEv'.window
          /\ convPending[lastEv'.window] > 0
          /\ prop[lastEv'.window].present
          /\ Len(prop[lastEv'.window].value) > 0 )
        => ( /\ ~crashed'
             /\ out'.events =
                    <<[widget_path |-> WidgetPath(lastEv'.window),
                       data |-> ExpectedPaths(prop[lastEv'.window].value)]>> )
      ]_vars

\* C2: an XdndDrop received while the flag is false is answered at once
\* with exactly one XdndFinished reporting failure; no selection
\* conversion is requested and no drop event is emitted
C2_DropWithoutUriListFails ==
    [][ ( /\ IsClientMessage(lastEv', xdnd_drop)
          /\ Len(handlers) >= 1
          /\ ~handlers[1].has_uri_list )
        => ( /\ out'.sent =
                    <<[window |-> handlers[1].source_window,
                       message_type |-> xdnd_finished,
                       l0 |-> handlers[1].window, l1 |-> 0, rect |-> 0,
                       action |-> None]>>
             /\ out'.conv = <<>>
             /\ out'.events = <<>>
             /\ convPending' = convPending
             /\ handlers' = handlers )
      ]_vars

\* C2 witness: a drop from a source that entered without offering
\* text/uri-list has been answered with a failure
C2_Witness ==
    /\ IsClientMessage(lastEv, xdnd_drop)
    /\ out.by >= 1
    /\ handlers[out.by].source_window \in Sources
    /\ ~handlers[out.by].has_uri_list
    /\ Len(out.sent) = 1
    /\ out.sent[1].message_type = xdnd_finished
    /\ out.sent[1].l1 = 0
    /\ out.conv = <<>>

\* C3 (stated as in the specification; refuted): an XdndEnter whose
\* version is greater than 5 changes no handler state and sends no message
C3_OverVersionEnterIgnored ==
    [][ ( /\ IsClientMessage(lastEv', xdnd_enter)
          /\ (lastEv'.l1 \div VersionShift) % 256 > 5 )
        => ( /\ handlers' = handlers
             /\ out'.sent = <<>> )
      ]_vars

\* C4 (stated as in the specification; refuted): registering a window a
\* second time succeeds without creating a second target, so no window
\* ever has two targets
C4_NoSecondTarget ==
    \A i, j \in 1..Len(handlers) :
        handlers[i].window = handlers[j].window => i = j

\* C10: after an XdndEnter with version <= 5 is handled, the flag is true
\* iff the more-than-three bit is clear and one of the three inline atoms
\* is text/uri-list, or the bit is set and text/uri-list is among the
\* first 1024 atoms of the source's XdndTypeList property; it is false
\* when that property is missing
C10_FlagFollowsOfferedTypes ==
    [][ ( /\ IsClientMessage(lastEv', xdnd_enter)
          /\ (lastEv'.l1 \div VersionShift) % 256 <= 5
          /\ Len(handlers) >= 1 )
        => ( /\ out'.by = 1
             /\ handlers'[1].has_uri_list =
                    ( IF lastEv'.l1 % 2 = 0
                      THEN \E k \in 1..3 : lastEv'.types[k] = text_uri_list
                      ELSE /\ lastEv'.typeList.present
                           /\ lastEv'.typeList.uriAt >= 1
                           /\ lastEv'.typeList.uriAt <= lastEv'.typeList.len
                           /\ lastEv'.typeList.uriAt <= 1024 ) )
      ]_vars

\* C10 witness: an enter whose type list holds text/uri-list only beyond
\* the first 1024 atoms has been handled and left the flag false
C10_Witness ==
    /\ IsClientMessage(lastEv, xdnd_enter)
    /\ out.by = 1
    /\ lastEv.l1 % 2 = 1
    /\ lastEv.typeList.present
    /\ lastEv.typeList.uriAt = 1025
    /\ ~handlers[1].has_uri_list

(***************************************************************************)
(* Properties of the decoder (SpecDecode)                                  *)
(***************************************************************************)
DecodedUri == dIn.kind = "uri" /\ dOut.done
DecodedList == dIn.kind = "list" /\ dOut.done

\* C5 (stated as in the specification; refuted): decoding a payload skips
\* empty lines and lines beginning with "#" and returns the paths of the
\* remaining file:// lines in payload order
C5_PayloadGivesPathsInOrder ==
    DecodedList => /\ ~dOut.crash
                   /\ dOut.paths = ExpectedPaths(dIn.input)

\* C6 (stated as in the specification; refuted): for file://localhost<path>
\* with <path> beginning with "/" the decoder returns <path> with its
\* percent-escapes decoded, and file://<path> gives the same result
C6_LocalhostIsStripped ==
    (DecodedUri /\ HasPrefix(dIn.input, FileScheme \o Localhost \o <<Slash>>))
    => LET path == SkipFirst(dIn.input, Len(FileScheme) + Len(Localhost))
           e == uri_to_path(FileScheme \o path)
       IN  /\ ~dOut.null
           /\ ~dOut.crash
           /\ dOut.str = PctDecode(path)
           /\ ~e.null
           /\ InBounds(e)
           /\ CStrAt(e.buf, e.off) = dOut.str

\* C7 (stated as in the specification; refuted): every "%" followed by two
\* hexadecimal digits is replaced by the byte of that value, every other
\* byte (a "%" of a malformed escape included) is copied, so the decoded
\* path holds exactly the decoded bytes of the whole URI path
C7_WholePathIsDecoded ==
    (DecodedUri /\ HasPrefix(dIn.input, FileScheme \o <<Slash>>))
    => /\ ~dOut.null
       /\ ~dOut.crash
       /\ dOut.str = PctDecode(SkipFirst(dIn.input, Len(FileScheme)))

\* the lines of a payload that are neither empty, nor comments, nor
\* file:// URIs
IsNonFileLine(ln) ==
    ln # <<>> /\ ln[1] # Hash /\ ~HasPrefix(ln, FileScheme)

RECURSIVE WithoutNonFileLines(_)
WithoutNonFileLines(ls) ==
    IF ls = <<>> THEN <<>>
    ELSE (IF IsNonFileLine(Head(ls)) THEN <<>> ELSE <<Head(ls)>>)
         \o WithoutNonFileLines(Tail(ls))

RECURSIVE JoinCRLF(_)
JoinCRLF(ls) ==
    IF ls = <<>> THEN <<>>
    ELSE IF Len(ls) = 1 THEN ls[1]
    ELSE ls[1] \o CRLF \o JoinCRLF(Tail(ls))

\* C8: a line that does not start with file:// contributes no element and
\* raises no error, and its presence changes neither the paths the other
\* lines produce nor their order: the payload decodes as it does with
\* those lines taken out
C8_NonFileLinesAreSkipped ==
    DecodedList
    => LET ls == SplitCRLF(dIn.input, <<>>)
           r == process_uri_list(JoinCRLF(WithoutNonFileLines(ls)), dOut.ub)
       IN  /\ dOut.crash = r.crash
           /\ dOut.paths = r.paths

\* C8 witness: a payload with a non-file line between two file lines has
\* been decoded to the two paths of the file lines
C8_Witness ==
    /\ DecodedList
    /\ LET ls == SplitCRLF(dIn.input, <<>>)
       IN  /\ Len(ls) = 3
           /\ IsFileLine(ls[1])
           /\ IsNonFileLine(ls[2])
           /\ IsFileLine(ls[3])
           /\ dOut.paths = <<LinePath(ls[1]), LinePath(ls[3])>>

\* the re-encoder of the round trip: bytes other than letters, digits and
\* "-", ".", "_", "~", "/" are escaped as "%" and two upper-case digits
Unreserved(c) ==
    \/ c \in 48..57 \/ c \in 65..90 \/ c \in 97..122
    \/ c \in {45, 46, 95, 126, Slash}
RECURSIVE Encode(_)
Encode(s) ==
    IF s = <<>> THEN <<>>
    ELSE (IF Unreserved(s[1]) THEN <<s[1]>>
          ELSE <<Pct, HexChars[(s[1] \div 16) + 1], HexChars[(s[1] % 16) + 1]>>)
         \o Encode(Tail(s))

\* the strings the re-encoder produces
RECURSIVE Canonical(_)
Canonical(p) ==
    IF p = <<>> THEN TRUE
    ELSE IF p[1] = Pct
    THEN /\ Len(p) >= 3
         /\ \E h, l \in 1..16 :
                /\ p[2] = HexChars[h] /\ p[3] = HexChars[l]
                /\ ~Unreserved((h - 1) * 16 + (l - 1))
         /\ Canonical(SkipFirst(p, 3))
    ELSE Unreserved(p[1]) /\ Canonical(Tail(p))

\* C9 (stated as in the specification, for the paths the re-encoder
\* produces; refuted): decoding a percent-encoded URI path and re-encoding
\* the result reproduces the encoded string
C9_DecodeEncodeRoundTrip ==
    ( /\ DecodedUri
      /\ HasPrefix(dIn.input, FileScheme \o <<Slash>>)
      /\ Canonical(SkipFirst(dIn.input, Len(FileScheme))) )
    => /\ ~dOut.null
       /\ ~dOut.crash
       /\ Encode(dOut.str) = SkipFirst(dIn.input, Len(FileScheme))

C13_EmptyTransferFinishesAndDeletes ==
    [][ ( /\ IsDropNotify(lastEv')
          /\ Len(handlers) >= 1 )
        => ( /\ ( ~prop[handlers[1].window].present
                  \/ prop[handlers[1].window].value = <<>> )
                => ( /\ out'.sent =
                            <<[window |-> handlers[1].source_window,
                               message_type |-> xdnd_finished,
                               l0 |-> handlers[1].window, l1 |-> 1,
                               rect |-> 0, action |-> xdnd_action_copy]>>
                     /\ out'.events = <<>> )
             /\ ~prop'[handlers[1].window].present )
      ]_vars

\* a step in which handler 1 answers a Drop with an XdndFinished: at once
\* for a drop that is not accepted, or on the SelectionNotify of a
\* conversion outstanding on its window
AnswersDrop ==
    /\ Len(handlers) >= 1
    /\ out'.by = 1
    /\ Len(out'.sent) = 1
    /\ out'.sent[1].message_type = xdnd_finished
    /\ \/ IsClientMessage(lastEv', xdnd_drop)
       \/ /\ IsDropNotify(lastEv')
          /\ lastEv'.window = handlers[1].window
          /\ convPending[handlers[1].window] > 0

\* C14 (stated as in the specification; refuted): a drop always terminates
\* the session: once a Drop has been answered, by finished/failure or by
\* finished/success after SelectionNotify, the acceptance flag is false, so
\* that a later Position or Drop without a new Enter is not accepted
C14_AnsweredDropEndsSession ==
    [][ AnswersDrop => ~handlers'[1].has_uri_list ]_vars

\* C15 (stated as in the specification; refuted): an XdndLeave received in
\* any session state cancels the session with no drop event and no
\* XdndFinished: afterwards the acceptance flag is false, so that a Drop
\* without a new Enter issues no conversion and a Position gets no
\* accepting status
C15_LeaveCancelsSession ==
    [][ ( /\ IsClientMessage(lastEv', xdnd_leave)
          /\ Len(handlers) >= 1 )
        => ( /\ out'.events = <<>>
             /\ out'.sent = <<>>
             /\ ~handlers'[1].has_uri_list )
      ]_vars

\* the XdndFinished messages among what a step sent
FinishedSent(sent) ==
    {i \in 1..Len(sent) : sent[i].message_type = xdnd_finished}

\* C16 (stated as in the specification; refuted): every XdndDrop is
\* answered by exactly one XdndFinished provided the SelectionNotify of an
\* accepted drop is delivered: a Drop that is not accepted is answered at
\* once, an accepted Drop is answered by nothing until the SelectionNotify
\* of its conversion arrives, and that SelectionNotify is answered by
\* exactly one XdndFinished; while the transfer is not completed no
\* XdndFinished and no drop event are produced, so an XdndFinished or an
\* event is produced only by one of these two steps; nothing blocks, and
\* the next XdndEnter of version <= 5 sets the source window and the
\* acceptance flag from its own payload
C16_EveryDropAnsweredOnce ==
    [][ Len(handlers) >= 1 =>
        /\ IsClientMessage(lastEv', xdnd_drop)
           => /\ out'.by = 1
              /\ out'.events = <<>>
              /\ Cardinality(FinishedSent(out'.sent))
                     = IF handlers[1].has_uri_list THEN 0 ELSE 1
        /\ ( /\ IsDropNotify(lastEv')
             /\ lastEv'.window = handlers[1].window
             /\ convPending[handlers[1].window] > 0 )
           => /\ Cardinality(FinishedSent(out'.sent)) = 1
              /\ ~crashed'
        /\ ( FinishedSent(out'.sent) # {} \/ out'.events # <<>> )
           => \/ IsClientMessage(lastEv', xdnd_drop)
              \/ /\ IsDropNotify(lastEv')
                 /\ convPending[lastEv'.window] > 0
        /\ ( /\ IsClientMessage(lastEv', xdnd_enter)
             /\ EnterVersion(lastEv') <= XDND_VERSION )
           => /\ handlers'[1].source_window = lastEv'.l0
              /\ handlers'[1].has_uri_list = OffersUriList(lastEv')
      ]_vars

(***************************************************************************)
(* Properties of the Windows adapter (SpecWin)                             *)
(***************************************************************************)
\* UTF-16: the unit at i is the second half of a surrogate pair
IsSecondHalf(w, i) ==
    i > 1 /\ w[i] \in 56320..57343 /\ w[i - 1] \in 55296..56319
\* the code point that starts at unit i; an unpaired surrogate counts as
\* U+FFFD
CodePointAt(w, i) ==
    IF w[i] \in 55296..56319 /\ i < Len(w) /\ IsSecondHalf(w, i + 1)
    THEN 65536 + 1024 * (w[i] - 55296) + (w[i + 1] - 56320)
    ELSE IF w[i] \in 55296..57343 THEN 65533
    ELSE w[i]

\* UTF-8: a lead byte and n continuation bytes of six bits each
Pow64(k) == IF k = 0 THEN 1 ELSE IF k = 1 THEN 64 ELSE IF k = 2 THEN 4096
            ELSE 262144
Continuations(cp) ==
    IF cp < 128 THEN 0 ELSE IF cp < 2048 THEN 1 ELSE IF cp < 65536 THEN 2
    ELSE 3
LeadMark(n) == IF n = 0 THEN 0 ELSE IF n = 1 THEN 192 ELSE IF n = 2 THEN 224
               ELSE 240
Utf8Of(cp) ==
    <<LeadMark(Continuations(cp)) + (cp \div Pow64(Continuations(cp)))>>
    \o [k \in 1..Continuations(cp) |->
           128 + ((cp \div Pow64(Continuations(cp) - k)) % 64)]
\* the UTF-8 bytes of units lo..hi of w
RECURSIVE Utf8OfUnits(_, _, _)
Utf8OfUnits(w, lo, hi) ==
    IF lo > hi THEN <<>>
    ELSE IF lo = hi
    THEN IF IsSecondHalf(w, lo) THEN <<>> ELSE Utf8Of(CodePointAt(w, lo))
    ELSE Utf8OfUnits(w, lo, (lo + hi) \div 2)
         \o Utf8OfUnits(w, (lo + hi) \div 2 + 1, hi)

\* the whole names, as UTF-8, of the entries that can be queried and
\* converted, in the order of the file list
IsUsableEntry(e) == EntryKind(e) = "ok"
ExpectedWinPaths(files) ==
    [i \in 1..Len(SelectSeq(files, IsUsableEntry)) |->
        Utf8OfUnits(EntryName(SelectSeq(files, IsUsableEntry)[i]), 1,
                    Len(EntryName(SelectSeq(files, IsUsableEntry)[i])))]

\* a step that is the call name of the adapter
IsWinCall(name) == wIn'.name = name

\* C17 (stated as in the specification; refuted): a Drop whose data object
\* yields a file list emits exactly one drop event carrying all file
\* paths, converted to UTF-8, in the order of the native file list, the
\* entries that cannot be queried or converted being skipped, and reports
\* the copy effect; no Drop emits more than one event
C17_DropEmitsAllPaths ==
    [][ IsWinCall("Drop") =>
        /\ Len(wOut'.events) <= 1
        /\ ( ~FAILED(wIn'.obj.getData) /\ wIn'.obj.lockOk )
           => /\ wOut'.events =
                     <<[widget_path |-> tdt.widget_path,
                        data |-> ExpectedWinPaths(wIn'.obj.files)]>>
              /\ wOut'.effect = DROPEFFECT_COPY
      ]_vars

\* C18 (stated as in the specification; refuted): when extracting the file
\* list in Drop fails, because the data object refuses the format or the
\* global memory cannot be locked, no drop event is emitted, the effect
\* reported is none, and no error is propagated to the caller of Drop
C18_FailedExtractionIsSilent ==
    [][ ( /\ IsWinCall("Drop")
          /\ FAILED(wIn'.obj.getData) \/ ~wIn'.obj.lockOk )
        => ( /\ wOut'.events = <<>>
             /\ wOut'.effect = DROPEFFECT_NONE
             /\ ~FAILED(wOut'.hr) )
      ]_vars

\* the adapter a holds v as its acceptable flag
AcceptableIs(a, v) == "acceptable" \in DOMAIN a /\ a.acceptable = v

\* C19 (stated as in the specification; refuted): DragEnter replies with
\* the copy effect exactly when the payload advertises the file-list
\* format and with the none effect otherwise, records that result as the
\* adapter's acceptable flag, and emits no drop event
C19_DragEnterRecordsAcceptable ==
    [][ IsWinCall("DragEnter")
        => ( /\ wOut'.effect = IF wIn'.obj.query THEN DROPEFFECT_COPY
                               ELSE DROPEFFECT_NONE
             /\ wOut'.events = <<>>
             /\ AcceptableIs(tdt', wIn'.obj.query) )
      ]_vars

\* C20: DragOver always replies with the copy effect and DragLeave always
\* succeeds; neither changes a field of the adapter (reference count,
\* widget path, window handle) nor emits a drop event; as DragEnter leaves
\* the adapter alone too, the adapter after DragLeave is the adapter the
\* gesture found
C20_DragOverAndLeaveChangeNothing ==
    [][ /\ IsWinCall("DragOver")
           => /\ wOut'.effect = DROPEFFECT_COPY
              /\ wOut'.hr = S_OK
              /\ wOut'.events = <<>>
              /\ tdt' = tdt
        /\ IsWinCall("DragLeave")
           => /\ wOut'.hr = S_OK
              /\ wOut'.events = <<>>
              /\ tdt' = tdt
              /\ ~gesture'.active
        /\ IsWinCall("DragEnter") => tdt' = tdt
      ]_vars

\* C20 witness: a gesture whose payload advertises no file list has been
\* dragged over an adapter with two references and has left it
C20_Witness ==
    /\ wIn.name = "DragLeave"
    /\ ~wIn.obj.query
    /\ wOut.hr = S_OK
    /\ wOut.events = <<>>
    /\ ~gesture.active
    /\ tdt.ref_count = 2

(***************************************************************************)
(* Sessions of the X11 state machine (Spec)                                *)
(***************************************************************************)
\* the last event handled was an XdndEnter that the handler ignored for
\* its version
AfterIgnoredEnter ==
    /\ Len(handlers) >= 1
    /\ IsClientMessage(lastEv, xdnd_enter)
    /\ EnterVersion(lastEv) > XDND_VERSION

\* C27 (stated as in the specification; refuted): after an ignored
\* (over-version) XdndEnter from a source S, an XdndPosition yields no
\* XdndStatus with the accept bit set addressed to S and an XdndDrop
\* triggers neither a selection conversion nor a drop event: the
\* acceptance flag of an earlier session is not applied to S
C27_IgnoredEnterAcceptsNothing ==
    [][ AfterIgnoredEnter =>
        /\ IsClientMessage(lastEv', xdnd_position)
           => \A i \in 1..Len(out'.sent) :
                  ~ ( /\ out'.sent[i].message_type = xdnd_status
                      /\ out'.sent[i].window = lastEv.l0
                      /\ out'.sent[i].l1 = 1 )
        /\ IsClientMessage(lastEv', xdnd_drop)
           => /\ out'.conv = <<>>
              /\ out'.events = <<>>
      ]_vars

\* C28 (stated as in the specification; refuted): a SelectionNotify for
\* the drop property that arrives when no accepted XdndDrop is outstanding
\* emits no drop event and sends no XdndFinished
C28_StrayNotifyDoesNothing ==
    [][ ( /\ IsDropNotify(lastEv')
          /\ Len(handlers) >= 1
          /\ lastEv'.window = handlers[1].window
          /\ convPending[handlers[1].window] = 0 )
        => ( /\ out'.events = <<>>
             /\ FinishedSent(out'.sent) = {} )
      ]_vars

\* an XDND client message or a SelectionNotify for the drop property
IsXdndEvent(ev) ==
    \/ IsDropNotify(ev)
    \/ \E mt \in {xdnd_enter, xdnd_position, xdnd_drop} :
           IsClientMessage(ev, mt)

\* C30 (stated as in the specification; refuted): with two windows
\* registered, an XDND client message or SelectionNotify addressed to
\* window B changes only the session state of B, its replies carry B as
\* the target window, its drop event goes to the widget path of B, and the
\* session state of the other registered window is left unchanged
C30_EventsReachTheirWindowOnly ==
    [][ ( /\ Len(handlers) = 2
          /\ handlers[1].window # handlers[2].window
          /\ IsXdndEvent(lastEv')
          /\ lastEv'.window = handlers[2].window )
        => ( /\ handlers'[1] = handlers[1]
             /\ \A i \in 1..Len(out'.sent) :
                    out'.sent[i].l0 = handlers[2].window
             /\ \A i \in 1..Len(out'.events) :
                    out'.events[i].widget_path = handlers[2].widget_path )
      ]_vars

\* C29 (stated as in the specification; refuted): the XdndFinished that
\* answers a drop is addressed to the source window of the session in
\* which the XdndDrop was received, also when an XdndEnter from another
\* source arrives between the conversion request and its SelectionNotify
C29_FinishedGoesToDropSource ==
    [][ ( /\ IsDropNotify(lastEv')
          /\ Len(handlers) >= 1
          /\ lastEv'.window = handlers[1].window
          /\ convPending[handlers[1].window] = 1 )
        => \A i \in FinishedSent(out'.sent) :
               out'.sent[i].window = dropFrom[handlers[1].window]
      ]_vars

\* the fields of a registration that are fixed when it is made
FixedFields(st) == <<st.atoms, st.window, st.display, st.widget_path>>

\* C25: a successful registration sets the XdndAware property of the
\* window to version 5 and resolves every protocol atom once, caching it in
\* the record; afterwards no event changes the cached atoms, the window
\* id, the display or the widget path of a registration, and none
\* resolves an atom again
C25_RegistrationFixesAtoms ==
    [][ /\ ( lastEv'.type = "Register" /\ out'.rc = "TCL_OK" )
           => /\ xdndAware'[lastEv'.window] = XDND_VERSION
              /\ Len(handlers') = Len(handlers) + 1
              /\ handlers'[Len(handlers')].atoms = ProtocolAtoms
              /\ out'.interned = ProtocolAtoms
              /\ \A i, j \in 1..Len(out'.interned) :
                     out'.interned[i] = out'.interned[j] => i = j
        /\ \A i \in 1..Len(handlers) :
               FixedFields(handlers'[i]) = FixedFields(handlers[i])
        /\ lastEv'.type # "Register"
           => /\ out'.interned = <<>>
              /\ xdndAware' = xdndAware
              /\ Len(handlers') = Len(handlers)
      ]_vars

\* C25 witness: a registered window has handled an accepted drop to its
\* end and still holds the atoms and fields of its registration
C25_Witness ==
    /\ Len(handlers) >= 1
    /\ IsDropNotify(lastEv)
    /\ out.by = 1
    /\ out.events # <<>>
    /\ handlers[1].source_window \in Sources
    /\ handlers[1].atoms = ProtocolAtoms
    /\ handlers[1].display = TheDisplay
    /\ handlers[1].widget_path = WidgetPath(handlers[1].window)
    /\ xdndAware[handlers[1].window] = XDND_VERSION

(***************************************************************************)
(* The reference count (SpecRef)                                           *)
(***************************************************************************)
\* C21: starting from 1, under any interleaving of AddRef, successful
\* QueryInterface and Release calls of the threads the count equals
\* 1 + AddRef calls + successful QueryInterface calls - Release calls; the
\* adapter is destroyed once, by the Release whose decrement brought the
\* count to zero and never while the count is positive; a QueryInterface
\* for an unsupported interface returns a null pointer and leaves the
\* count unchanged
C21_CountIsExact ==
    [][ /\ tdt'.ref_count
               = 1 + refLog'.addref + refLog'.qi - refLog'.release
        /\ refLog'.destroyed <= 1
        /\ refLog'.destroyed # refLog.destroyed
           => /\ tdt.ref_count = 0
              /\ tdt # NoTdt
              /\ tdt' = NoTdt
              /\ \E t \in Threads : rel[t] = 0 /\ rel'[t] = NotReleasing
        /\ ( tdt # NoTdt /\ tdt' = NoTdt )
           => refLog'.destroyed = refLog.destroyed + 1
        /\ ( refLog'.call = "QueryInterface" /\ refLog'.qi = refLog.qi )
           => /\ refLog'.ppv = "NULL"
              /\ tdt' = tdt
        /\ ( refLog'.call = "QueryInterface" /\ refLog'.qi # refLog.qi )
           => refLog'.ppv = "self"
      ]_vars

\* C21 witness: the adapter has been destroyed by the Release of one
\* thread while the Release of the other thread, which decremented first,
\* has not returned yet, after AddRef and QueryInterface calls
C21_Witness ==
    /\ refLog.destroyed = 1
    /\ tdt = NoTdt
    /\ \E t \in Threads : rel[t] = 1
    /\ refLog.addref >= 1
    /\ refLog.qi >= 1

(***************************************************************************)
(* Registration (SpecReg)                                                  *)
(***************************************************************************)
\* a step that is a call of Interp#register_drop_target
IsRegistration == regOut'.calls # <<>>
\* the path names a widget
Resolves(path) == \E w \in Windows : WidgetPath(w) = path
\* position of a function among the calls made (0: not called)
CallIndex(calls, f) ==
    IF \E i \in 1..Len(calls) : calls[i] = f
    THEN CHOOSE i \in 1..Len(calls) : calls[i] = f
    ELSE 0
\* what the adapters keep: event hooks and the XdndAware properties, the
\* OLE state
AdapterState == <<handlers, xdndAware, winReg>>

\* C22: register_drop_target fails with 'Tk not initialized' when no main
\* window exists, before any lookup, with 'window not found' when the
\* identifier does not resolve, and with an error whenever the platform
\* adapter reports failure, the adapter of an unsupported platform
\* included; in the first two cases the adapter is not invoked and nothing
\* is registered; the native window is made to exist before the adapter is
\* invoked
C22_RegistrationErrors ==
    [][ IsRegistration =>
        /\ ~tk.main
           => /\ regOut'.raised = "Tk not initialized (no main window)"
              /\ CallIndex(regOut'.calls, "Tk_NameToWindow") = 0
        /\ ( tk.main /\ ~Resolves(regOut'.path) )
           => regOut'.raised = "window not found"
        /\ ( ~tk.main \/ ~Resolves(regOut'.path) )
           => /\ CallIndex(regOut'.calls, "teek_register_drop_target") = 0
              /\ AdapterState' = AdapterState
              /\ tk' = tk
        /\ ( tk.main /\ Resolves(regOut'.path) )
           => /\ CallIndex(regOut'.calls, "teek_register_drop_target") > 0
              /\ CallIndex(regOut'.calls, "Tk_MakeWindowExist")
                     \in 1..(CallIndex(regOut'.calls,
                                       "teek_register_drop_target") - 1)
              /\ \E w \in tk'.made : WidgetPath(w) = regOut'.path
              /\ regOut'.rc = TCL_ERROR
                 => regOut'.raised = "failed to register drop target"
              /\ regOut'.rc = TCL_OK => regOut'.raised = "-"
              /\ platform = "none"
                 => /\ regOut'.rc = TCL_ERROR
                    /\ regOut'.msg
                           = "file drop not supported on this platform"
      ]_vars

\* C22 witness: on a build without drop support a call for an existing
\* widget has raised the adapter's failure, after the window was made
C22_Witness ==
    /\ platform = "none"
    /\ tk.main
    /\ Resolves(regOut.path)
    /\ regOut.raised = "failed to register drop target"
    /\ \E w \in tk.made : WidgetPath(w) = regOut.path

\* C23 (stated as in the specification; refuted): a registration that
\* fails in the adapter (no native handle or display, platform
\* initialisation failure, out of memory, or a refusal of the registration
\* other than already-registered) returns an error and leaves no partial
\* state: no adapter or session record stays allocated, no event hook
\* stays installed, no window property is changed, and no process-wide
\* initialisation stays acquired on behalf of the call
C23_FailedRegistrationLeavesNothing ==
    [][ ( /\ IsRegistration
          /\ platform \in {"x11", "win"}
          /\ regOut'.rc = TCL_ERROR )
        => ( /\ regOut'.raised # "-"
             /\ handlers' = handlers
             /\ xdndAware' = xdndAware
             /\ prop' = prop
             /\ winReg'.allocated = winReg.allocated
             /\ winReg'.targets = winReg.targets
             /\ winReg'.oleCount = winReg.oleCount )
      ]_vars

C26_CaptureLifecycle ==
    [][ /\ Cardinality(mixer'.open) <= 1
        /\ (cap'.file = NoFile) <=> (mixer'.open = {})
        /\ cap'.file # NoFile => mixer'.open = {cap'.file}
        /\ (aOut'.call = "start" /\ cap.file # NoFile)
           => /\ aOut'.raised = "audio capture already in progress"
              /\ cap' = cap
              /\ mixer' = mixer
        /\ (aOut'.call = "stop" /\ cap.file = NoFile)
           => /\ aOut'.raised = "-"
              /\ cap' = cap
              /\ mixer' = mixer
        /\ (aOut'.call = "stop" /\ cap.file # NoFile)
           => /\ aOut'.raised = "-"
              /\ cap'.file = NoFile
              /\ ~mixer'.postmix
              /\ mixer'.files[cap.file] = cap.data_bytes
        /\ (aOut'.call = "start" /\ cap.file = NoFile)
           => /\ aOut'.raised # "audio capture already in progress"
              /\ aOut'.raised = "-"
                 => /\ cap'.file \in CapturePaths
                    /\ cap'.data_bytes = 0
                    /\ mixer'.postmix
      ]_vars

\* C26 witness: a capture to a.wav was stopped after data had been written,
\* and the start that followed was accepted: b.wav is being captured
C26_Witness ==
    /\ aOut = AudioOut("start", "-")
    /\ cap.file = "b.wav"
    /\ mixer.files["a.wav"] > 0
    /\ mixer.open = {"b.wav"}

\* C31 (stated as in the specification; refuted): for every NUL-terminated
\* input that starts with file:// the pointer returned by uri_to_path lies
\* inside the input buffer, at or before its terminating NUL, and points
\* at the first byte of the decoded text the function wrote; also for
\* file:// alone and for a host other than localhost
C31_ReturnedPointerIsInside ==
    (DecodedUri /\ HasPrefix(dIn.input, FileScheme))
    => /\ ~dOut.null
       /\ dOut.off <= Len(dIn.input)
       /\ dOut.off = HostSkip(dIn.input \o <<NUL>>)
       /\ dOut.ub = "-"

\* C32 (stated as in the specification; refuted): within one drag gesture
\* DragOver never replies with the copy effect when the DragEnter of that
\* gesture replied with the none effect
C32_DragOverFollowsDragEnter ==
    [][ ( /\ IsWinCall("DragOver")
          /\ gesture.active
          /\ tdt_DragEnter(tdt, gesture.obj).effect = DROPEFFECT_NONE )
        => wOut'.effect # DROPEFFECT_COPY
      ]_vars

\* the events the claim lists as consumed
IsConsumedEvent(ev) ==
    \/ IsClientMessage(ev, xdnd_enter) /\ EnterVersion(ev) <= XDND_VERSION
    \/ IsClientMessage(ev, xdnd_position)
    \/ IsClientMessage(ev, xdnd_drop)
    \/ IsDropNotify(ev)

\* an event was offered to the hook of at least one registered window
IsDelivery(ev) == ev.type \in {"ClientMessage", "SelectionNotify", "Expose"}

\* C33 (stated as in the specification; refuted): the event hook returns 1
\* for exactly the XdndEnter of version <= 5, XdndPosition, XdndDrop and
\* the SelectionNotify for the drop property; every other event is passed
\* on unconsumed, sends no message, emits no event and leaves the session
\* state unchanged
C33_HookConsumesExactlyXdnd ==
    [][ ( /\ IsDelivery(lastEv')
          /\ Len(handlers) >= 1
          /\ ~crashed' )
        => /\ IsConsumedEvent(lastEv') <=> out'.ret = 1
           /\ ~IsConsumedEvent(lastEv')
              => /\ out'.ret = 0
                 /\ out'.sent = <<>>
                 /\ out'.conv = <<>>
                 /\ out'.events = <<>>
                 /\ handlers' = handlers
                 /\ prop' = prop
      ]_vars

\* C34 (stated as in the specification; refuted): over any sequence of
\* destroy calls followed by finalisation the chunk of a Sound is freed
\* exactly once (never twice, and once loaded never left allocated);
\* destroy is idempotent; after destroy, destroyed? is true and every play,
\* volume= and volume raises "sound has been destroyed" without touching
\* the freed chunk
C34_SoundFreedOnce ==
    [][ \A s \in Sounds :
          /\ chunks'[s].frees <= 1
          /\ ~chunks'[s].misused
          /\ (snd'[s].collected /\ sndLog'[s].loaded)
             => chunks'[s].state = "freed" /\ chunks'[s].frees = 1
          /\ (sndOut'.self = s /\ sndLog[s].destroyCalled /\ ~snd[s].collected)
             => /\ sndOut'.call = "destroy"
                   => /\ sndOut'.raised = "-"
                      /\ snd' = snd
                      /\ chunks' = chunks
                /\ sndOut'.call = "destroyed?" => sndOut'.flag
                /\ sndOut'.call \in {"play", "volume=", "volume"}
                   => /\ sndOut'.raised = "sound has been destroyed"
                      /\ chunks' = chunks
      ]_vars

====
